---- MODULE Spec2Model ----
(***************************************************************************)
(* Real-time ticket-event distribution of service-desk-backend.            *)
(*                                                                         *)
(* The state machines of this module share one set of variables:           *)
(*   Spec / FairSpec / LiveSpec                                            *)
(*                    the websocket Hub (hub.go) and its Client sessions    *)
(*                    (client.go, websocket_handler.go);                   *)
(*   UnregSpec        Hub.unregisterClient applied repeatedly to registry   *)
(*                    states;                                              *)
(*   BcastSpec        Hub.Broadcast called in every state of a running Hub; *)
(*   PumpSpec         the teardown of sessions (ReadPump, WritePump, the    *)
(*                    Hub's Unregister case) from every queue content;      *)
(*   OutboxSpec       the transactional services (TicketService and         *)
(*                    CommentService with txManager/eventRepo) over the     *)
(*                    postgres repositories, and a catch-up reader;         *)
(*   SvcSpec          the services that hold an EventBroadcaster            *)
(*                    (ticket_service.go, comment_service.go) and the       *)
(*                    delivery of their events by the Hub;                  *)
(*   DomainSpec       TicketService.UpdateStatus up to Ticket.UpdateStatus  *)
(*                    on every stored ticket row.                          *)
(***************************************************************************)
EXTENDS Integers, Sequences, FiniteSets, TLC

\* ------------------------------------------------------------------ bounds
\* capacity of Client.Send (256 in the source, scaled down)
SendCap == 1
\* capacity of Hub.broadcast (256 in the source, scaled down)
BroadcastCap == 1
\* number of Hub.Broadcast calls in one behaviour
MaxEvents == 2

Clients == {"c1", "c2"}
Users == {"u1"}
Tickets == {1, 2}

\* Client.UserID: both sessions belong to one user (two tabs)
UserID(c) == "u1"

NoEvent == [seq |-> 0, TicketID |-> 0, Type |-> "NONE"]
PongEvent == [seq |-> 0, TicketID |-> 0, Type |-> "PONG"]

VARIABLES
    \* ---- Hub (hub.go)
    clients,        \* h.clients : user id -> set of sessions (a map: DOMAIN = its keys)
    rooms,          \* h.rooms   : ticket id -> set of sessions (a map)
    broadcast,      \* h.broadcast : buffered channel of events
    hubPc,          \* where Hub.Run is: "select", "sending", "evict"
    hubEvent,       \* the event broadcastEvent is dispatching
    hubPending,     \* the rest of broadcastEvent's copied client list
    \* ---- Client (client.go)
    Send,           \* c.Send : buffered channel contents
    closed,         \* c.Send has been closed
    closeOnce,      \* c.closeOnce has fired
    Subscriptions,  \* c.Subscriptions
    rp,             \* ReadPump / ServeHTTP position of the session
    wp,             \* WritePump position of the session
    panicked,       \* a goroutine panicked (send on / close of a closed channel)
    \* ---- history
    nextSeq,        \* Broadcast calls (and PINGs read) so far: numbers them for the history
    enqLog,         \* per session: seq of the events ever put on c.Send
    closeCount,     \* per session: times close(c.Send) ran
    unregCalls,     \* per session: times unregisterClient(c) ran
    \* ---- h.mu and the goroutines inside Hub methods (hub.go)
    mu,             \* h.mu (sync.RWMutex): the writer holding it and the readers
    cs,             \* per goroutine: where it is inside a Hub method, with its locals
    cmu,            \* per session: c.mu (sync.RWMutex), which protects Subscriptions
    \* ---- relational store (migrations, postgres adapters)
    tickets,        \* table tickets : id -> [status, assignee]  (committed rows)
    ticketSeq,      \* BIGSERIAL sequence of tickets.id
    comments,       \* table comments : committed rows
    ticket_events,  \* table ticket_events : committed rows
    eventSeq,       \* BIGSERIAL sequence of ticket_events.id
    \* ---- request handlers (services)
    req,            \* per request: position, parameters, in-memory ticket, open tx
    bgo,            \* requests whose "go Broadcast(event)" goroutine is spawned, not yet run
    bcalls,         \* history: requests whose event reached Hub.Broadcast
    bret,           \* the error the latest Hub.Broadcast call returned ("-": no call yet)
    \* ---- catch-up reader
    cursor,         \* afterID of the reader's next ListByTicketID call
    seen            \* history: ids the reader was returned, in order

hubVars == <<clients, rooms, broadcast, hubPc, hubEvent, hubPending>>
clientVars == <<Send, closed, closeOnce, Subscriptions, rp, wp, panicked>>
histVars == <<nextSeq, enqLog, closeCount, unregCalls>>
lockVars == <<mu, cs, cmu, cmu>>
hubAll == <<hubVars, clientVars, histVars, lockVars>>

storeVars == <<tickets, ticketSeq, comments, ticket_events, eventSeq, req, bgo, bcalls,
               bret, cursor, seen>>

vars == <<hubAll, storeVars>>

\* ---------------------------------------------------------------- Go maps
MapPut(m, k, v) == [x \in DOMAIN m \cup {k} |-> IF x = k THEN v ELSE m[x]]
MapDelete(m, k) == [x \in DOMAIN m \ {k} |-> m[x]]
MapGet(m, k) == IF k \in DOMAIN m THEN m[k] ELSE {}
EmptyMap == [x \in {} |-> {}]

\* all orders in which a Go map iteration can visit the set S
RECURSIVE Orders(_)
Orders(S) == IF S = {} THEN {<<>>}
             ELSE UNION {{<<x>> \o o : o \in Orders(S \ {x})} : x \in S}

\* ------------------------------------------------------------------- Init
\* the goroutines that call the Hub's methods: Run, each ReadPump,
\* and a goroutine of the application that calls SendToUser
Procs == {"hub", "sender"} \cup Clients
NoLock == [w |-> "none", r |-> {}]
OutCs == [pc |-> "out", c |-> "-", t |-> 0, subs |-> {}, clientList |-> {}]

\* h.mu and every c.mu unlocked, nobody inside a method
LockInit ==
    /\ mu = NoLock
    /\ cs = [p \in Procs |-> OutCs]
    /\ cmu = [c \in Clients |-> NoLock]

HubInit ==
    /\ LockInit
    /\ clients = EmptyMap
    /\ rooms = EmptyMap
    /\ broadcast = <<>>
    /\ hubPc = "select"
    /\ hubEvent = NoEvent
    /\ hubPending = <<>>
    /\ Send = [c \in Clients |-> <<>>]
    /\ closed = [c \in Clients |-> FALSE]
    /\ closeOnce = [c \in Clients |-> FALSE]
    /\ Subscriptions = [c \in Clients |-> {}]
    /\ rp = [c \in Clients |-> "none"]
    /\ wp = [c \in Clients |-> "none"]
    /\ panicked = FALSE
    /\ nextSeq = 0
    /\ enqLog = [c \in Clients |-> {}]
    /\ closeCount = [c \in Clients |-> 0]
    /\ unregCalls = [c \in Clients |-> 0]


\* ------------------------------------------------------------ Hub methods
\* a plain send "h.broadcast <- event; return nil": the caller waits while the
\* queue is full
BroadcastOn_Blocking(cap, event) ==
    /\ Len(broadcast) < cap
    /\ broadcast' = Append(broadcast, event)
    /\ bret' = "nil"

\* Hub.Broadcast on a Hub whose h.broadcast has capacity cap: a select with
\* "case h.broadcast <- event: return nil" and "default: (warning) return nil"
BroadcastOn(cap, event) ==
    IF Len(broadcast) < cap
    THEN /\ broadcast' = Append(broadcast, event)
         /\ bret' = "nil"
    ELSE /\ broadcast' = broadcast
         /\ bret' = "nil"

\* Hub.Broadcast
Broadcast(event) == BroadcastOn(BroadcastCap, event)

\* Hub.registerClient
registerClient(c) ==
    clients' = MapPut(clients, UserID(c), MapGet(clients, UserID(c)) \cup {c})

\* close(c.Send) without the Once
CloseSend_NoOnce(c) ==
    /\ closeOnce' = [closeOnce EXCEPT ![c] = TRUE]
    /\ closed' = [closed EXCEPT ![c] = TRUE]
    /\ closeCount' = [closeCount EXCEPT ![c] = @ + 1]
    /\ panicked' = closed[c]

\* Client.CloseSend: closeOnce.Do(close(c.Send))
CloseSend(c) ==
    IF closeOnce[c]
    THEN UNCHANGED <<closed, closeOnce, closeCount, panicked>>
    ELSE /\ closeOnce' = [closeOnce EXCEPT ![c] = TRUE]
         /\ closed' = [closed EXCEPT ![c] = TRUE]
         /\ closeCount' = [closeCount EXCEPT ![c] = @ + 1]
         /\ panicked' = closed[c]

\* a cleanup that leaves the room index as it is
LeaveRooms_Keep(c, subs) == rooms

\* the room index rs after c left every room of the set subs (empty rooms deleted)
LeaveRoomsOf(rs, c, subs) ==
    [t \in {t \in DOMAIN rs : ~(t \in subs /\ rs[t] \ {c} = {})} |->
        IF t \in subs THEN rs[t] \ {c} ELSE rs[t]]

\* h.rooms after c left every room of the set subs
LeaveRooms(c, subs) == LeaveRoomsOf(rooms, c, subs)

\* Hub.unregisterClient
unregisterClient(c) ==
    /\ clients' = IF UserID(c) \in DOMAIN clients /\ c \in clients[UserID(c)]
                  THEN IF clients[UserID(c)] \ {c} = {}
                       THEN MapDelete(clients, UserID(c))
                       ELSE MapPut(clients, UserID(c), clients[UserID(c)] \ {c})
                  ELSE clients
    /\ rooms' = LeaveRooms(c, Subscriptions[c])
    /\ CloseSend(c)
    /\ unregCalls' = [unregCalls EXCEPT ![c] = @ + 1]

\* a subscribe that joins the room without client.AddSubscription
subscribeClientToTicket_NoAdd(c, t) ==
    /\ rooms' = MapPut(rooms, t, MapGet(rooms, t) \cup {c})
    /\ UNCHANGED Subscriptions

\* the registry a subscribe or unsubscribe works on: h.rooms and the sessions'
\* Subscriptions
Registry == [rooms |-> rooms, subs |-> Subscriptions]

\* what subscribeClientToTicket(c, t) makes of a registry
AfterSubscribe(reg, c, t) ==
    [rooms |-> MapPut(reg.rooms, t, MapGet(reg.rooms, t) \cup {c}),
     subs |-> [reg.subs EXCEPT ![c] = @ \cup {t}]]

\* Hub.subscribeClientToTicket
subscribeClientToTicket(c, t) ==
    /\ rooms' = AfterSubscribe(Registry, c, t).rooms
    /\ Subscriptions' = AfterSubscribe(Registry, c, t).subs

\* an unsubscribe without the "if len(room) == 0 { delete(h.rooms, ticketID) }"
unsubscribeClientFromTicket_KeepEmpty(c, t) ==
    /\ rooms' = [x \in DOMAIN rooms |-> IF x = t THEN rooms[x] \ {c} ELSE rooms[x]]
    /\ Subscriptions' = [Subscriptions EXCEPT ![c] = @ \ {t}]

\* an unsubscribe that leaves the emptied room in h.rooms
AfterUnsubscribe_KeepRoom(reg, c, t) ==
    [rooms |-> [x \in DOMAIN reg.rooms |->
                   IF x = t THEN reg.rooms[x] \ {c} ELSE reg.rooms[x]],
     subs |-> [reg.subs EXCEPT ![c] = @ \ {t}]]

\* what unsubscribeClientFromTicket(c, t) makes of a registry
AfterUnsubscribe(reg, c, t) ==
    [rooms |-> LeaveRoomsOf(reg.rooms, c, {t}),
     subs |-> [reg.subs EXCEPT ![c] = @ \ {t}]]

\* Hub.unsubscribeClientFromTicket
unsubscribeClientFromTicket(c, t) ==
    /\ rooms' = AfterUnsubscribe(Registry, c, t).rooms
    /\ Subscriptions' = AfterUnsubscribe(Registry, c, t).subs

\* c.Conn.Close() has run: WritePump's defer, or ReadPump's defer after its
\* Unregister send completed
connClosed(c) == wp[c] = "done" \/ rp[c] = "done"

\* a pump of c calls a method of c.logger: ServeHTTP builds the Client without a
\* logger and the call dereferences the nil *slog.Logger.  The goroutine runs
\* its deferred calls and then the panic ends the process: at once for the
\* WritePump (ticker.Stop, Conn.Close), while the ReadPump's deferred function
\* first has to get c received on h.Unregister
LoggerPanic(pump, c) ==
    IF pump = "read"
    THEN rp' = [rp EXCEPT ![c] = "panicking"] /\ UNCHANGED <<wp, panicked>>
    ELSE wp' = [wp EXCEPT ![c] = "panicked"] /\ panicked' = TRUE /\ UNCHANGED rp

\* ------------------------------------------------------- Hub.Run goroutine
\* (each critical section on h.mu is one step here; LockSpec below takes the
\* lock operations one by one)
\* case client := <-h.Register: the rendezvous lets ServeHTTP go on and start the
\* pumps; Run goes on to call registerClient
HubRecvRegister(c) ==
    /\ ~panicked
    /\ hubPc = "select" /\ cs["hub"].pc = "out"
    /\ rp[c] = "registering"
    /\ rp' = [rp EXCEPT ![c] = "running"]
    /\ wp' = [wp EXCEPT ![c] = "running"]
    /\ cs' = [cs EXCEPT !["hub"] = [OutCs EXCEPT !.pc = "reg_lock", !.c = c]]
    /\ UNCHANGED <<hubVars, Send, closed, closeOnce, Subscriptions, panicked, histVars,
                   mu, cmu>>
    /\ UNCHANGED storeVars

\* Run: registerClient(client), from h.mu.Lock() to the deferred Unlock
HubRegisterClient ==
    /\ ~panicked
    /\ cs["hub"].pc = "reg_lock"
    /\ registerClient(cs["hub"].c)
    /\ cs' = [cs EXCEPT !["hub"] = OutCs]
    /\ UNCHANGED <<rooms, broadcast, hubPc, hubEvent, hubPending, clientVars, histVars,
                   mu, cmu>>
    /\ UNCHANGED storeVars

\* the sessions whose Unregister send is pending: a ReadPump in its deferred
\* h.Unregister <- c (after its loop ended, or while it panics), or
\* broadcastEvent in its own h.Unregister <- client
UnregisterOffered ==
    {c \in Clients : rp[c] \in {"unregistering", "panicking"}}
        \cup (IF hubPc = "evict" THEN {Head(hubPending)} ELSE {})

\* case client := <-h.Unregister: Run is the only receiver of the unbuffered
\* channel; the rendezvous lets the sending ReadPump go on to c.Conn.Close(), Run
\* goes on to call unregisterClient
HubRecvUnregister(c) ==
    /\ ~panicked
    /\ hubPc = "select" /\ cs["hub"].pc = "out"
    /\ c \in UnregisterOffered
    /\ rp' = [rp EXCEPT ![c] = IF @ = "panicking" THEN "panic_closing" ELSE "closing"]
    /\ cs' = [cs EXCEPT !["hub"] = [OutCs EXCEPT !.pc = "unreg_lock", !.c = c]]
    /\ UNCHANGED <<hubVars, Send, closed, closeOnce, Subscriptions, wp, panicked,
                   histVars, mu, cmu>>
    /\ UNCHANGED storeVars

\* Run: unregisterClient(client), from h.mu.Lock() to the deferred Unlock
HubUnregisterClient ==
    /\ ~panicked
    /\ cs["hub"].pc = "unreg_lock"
    /\ unregisterClient(cs["hub"].c)
    /\ cs' = [cs EXCEPT !["hub"] = OutCs]
    /\ UNCHANGED <<broadcast, hubPc, hubEvent, hubPending, Send, Subscriptions, rp, wp,
                   nextSeq, enqLog, mu, cmu>>
    /\ UNCHANGED storeVars

\* case event := <-h.broadcast: the slot of the queue is free again, Run goes on
\* to call broadcastEvent
HubRecvBroadcast ==
    /\ ~panicked
    /\ hubPc = "select" /\ cs["hub"].pc = "out"
    /\ broadcast # <<>>
    /\ broadcast' = Tail(broadcast)
    /\ hubEvent' = Head(broadcast)
    /\ cs' = [cs EXCEPT !["hub"].pc = "lookup_lock"]
    /\ UNCHANGED <<clients, rooms, hubPc, hubPending, clientVars, histVars, mu, cmu>>
    /\ UNCHANGED storeVars

\* broadcastEvent from h.mu.RLock() to h.mu.RUnlock(): the room of the event is
\* looked up and its clients copied (a Go map, any order)
HubLookup ==
    /\ ~panicked
    /\ cs["hub"].pc = "lookup_lock"
    /\ IF hubEvent.TicketID \notin DOMAIN rooms
       THEN /\ hubEvent' = NoEvent
            /\ UNCHANGED <<hubPc, hubPending>>
       ELSE \E order \in Orders(rooms[hubEvent.TicketID]) :
               /\ hubPending' = order
               /\ hubPc' = IF order = <<>> THEN "select" ELSE "sending"
               /\ hubEvent' = IF order = <<>> THEN NoEvent ELSE hubEvent
    /\ cs' = [cs EXCEPT !["hub"] = OutCs]
    /\ UNCHANGED <<clients, rooms, broadcast, clientVars, histVars, mu, cmu>>
    /\ UNCHANGED storeVars

\* one iteration of broadcastEvent's send loop: select { case client.Send <- event: default: }
\* with cap the capacity of the sessions' Send channels
HubSendOneCap(cap) ==
    /\ ~panicked
    /\ hubPc = "sending"
    /\ LET c == Head(hubPending) IN
       IF closed[c]
       THEN /\ panicked' = TRUE
            /\ UNCHANGED <<hubPc, hubEvent, hubPending, Send, enqLog>>
       ELSE IF Len(Send[c]) < cap
       THEN /\ Send' = [Send EXCEPT ![c] = Append(@, hubEvent)]
            /\ enqLog' = [enqLog EXCEPT ![c] = @ \cup {hubEvent.seq}]
            /\ hubPending' = Tail(hubPending)
            /\ hubPc' = IF Tail(hubPending) = <<>> THEN "select" ELSE "sending"
            /\ hubEvent' = IF Tail(hubPending) = <<>> THEN NoEvent ELSE hubEvent
            /\ UNCHANGED panicked
       ELSE /\ hubPc' = "evict"
            /\ UNCHANGED <<hubEvent, hubPending, Send, enqLog, panicked>>
    /\ UNCHANGED <<clients, rooms, broadcast, closed, closeOnce, Subscriptions, rp, wp,
                   nextSeq, closeCount, unregCalls>>
    /\ UNCHANGED <<storeVars, lockVars>>

HubSendOne == HubSendOneCap(SendCap)

HubStep ==
    \/ \E c \in Clients : HubRecvRegister(c)
    \/ HubRegisterClient
    \/ \E c \in Clients : HubRecvUnregister(c)
    \/ HubUnregisterClient
    \/ HubRecvBroadcast
    \/ HubLookup
    \/ HubSendOne

\* ------------------------------------------------------ callers of the Hub
\* a service calls Hub.Broadcast with an event of ticket t, on a Hub whose
\* h.broadcast has capacity cap
CallBroadcastOn(cap, t) ==
    /\ ~panicked
    /\ nextSeq < MaxEvents
    /\ nextSeq' = nextSeq + 1
    /\ BroadcastOn(cap, [seq |-> nextSeq + 1, TicketID |-> t, Type |-> "EVENT"])
    /\ UNCHANGED <<clients, rooms, hubPc, hubEvent, hubPending, clientVars,
                   enqLog, closeCount, unregCalls>>
    /\ UNCHANGED <<tickets, ticketSeq, comments, ticket_events, eventSeq, req, bgo, bcalls,
                   cursor, seen>>
    /\ UNCHANGED lockVars

CallBroadcast(t) == CallBroadcastOn(BroadcastCap, t)

\* WebSocketHandler.ServeHTTP: build the Client, then client.Hub.Register <- client
Connect(c) ==
    /\ ~panicked
    /\ rp[c] = "none"
    /\ rp' = [rp EXCEPT ![c] = "registering"]
    /\ UNCHANGED <<hubVars, Send, closed, closeOnce, Subscriptions, wp, panicked, histVars>>
    /\ UNCHANGED <<storeVars, lockVars>>

\* ------------------------------------------------------------ ReadPump
\* handleSubscribe with a ticket id > 0
Subscribe(c, t) ==
    /\ ~panicked
    /\ rp[c] = "running"
    /\ ~connClosed(c)
    /\ t > 0
    /\ subscribeClientToTicket(c, t)
    /\ UNCHANGED <<clients, broadcast, hubPc, hubEvent, hubPending, Send, closed,
                   closeOnce, rp, wp, panicked, histVars>>
    /\ UNCHANGED <<storeVars, lockVars>>

\* handleUnsubscribe
Unsubscribe(c, t) ==
    /\ ~panicked
    /\ rp[c] = "running"
    /\ ~connClosed(c)
    /\ unsubscribeClientFromTicket(c, t)
    /\ UNCHANGED <<clients, broadcast, hubPc, hubEvent, hubPending, Send, closed,
                   closeOnce, rp, wp, panicked, histVars>>
    /\ UNCHANGED <<storeVars, lockVars>>

\* handleIncomingMessage with a message it logs: malformed JSON, an unknown type,
\* a malformed payload, or a SUBSCRIBE_TO_TICKET with a ticket id <= 0
ReadInvalid(c) ==
    /\ ~panicked
    /\ rp[c] = "running" /\ cs[c].pc = "out"
    /\ ~connClosed(c)
    /\ LoggerPanic("read", c)
    /\ UNCHANGED <<hubVars, Send, closed, closeOnce, Subscriptions, histVars>>
    /\ UNCHANGED <<storeVars, lockVars>>

\* ReadMessage returned an error (peer closed, deadline, Conn closed by WritePump):
\* an unexpected close code (IsUnexpectedCloseError) is logged first; otherwise
\* the loop breaks and the deferred h.Unregister <- c starts
ReadExit(c, unexpected) ==
    /\ ~panicked
    /\ rp[c] = "running" /\ cs[c].pc = "out"
    /\ IF unexpected
       THEN LoggerPanic("read", c)
       ELSE /\ rp' = [rp EXCEPT ![c] = "unregistering"]
            /\ UNCHANGED <<wp, panicked>>
    /\ UNCHANGED <<hubVars, Send, closed, closeOnce, Subscriptions, histVars>>
    /\ UNCHANGED <<storeVars, lockVars>>

\* ReadPump's defer after its Unregister send was received: c.Conn.Close(); the
\* goroutine returns, or, if it was panicking, the process ends
ReadClose(c) ==
    /\ ~panicked
    /\ rp[c] \in {"closing", "panic_closing"}
    /\ rp' = [rp EXCEPT ![c] = IF @ = "closing" THEN "done" ELSE "panicked"]
    /\ panicked' = (rp[c] = "panic_closing")
    /\ UNCHANGED <<hubVars, Send, closed, closeOnce, Subscriptions, wp, histVars>>
    /\ UNCHANGED <<storeVars, lockVars>>

\* ------------------------------------------------------------ WritePump
\* a WritePump that takes the newest queued event first
WriteRecv_NewestFirst(c) ==
    /\ ~panicked
    /\ wp[c] = "running"
    /\ Send[c] # <<>>
    /\ Send' = [Send EXCEPT ![c] = SubSeq(@, 1, Len(@) - 1)]
    /\ wp' = [wp EXCEPT ![c] = "writing"]
    /\ UNCHANGED <<hubVars, closed, closeOnce, Subscriptions, rp, panicked, histVars>>
    /\ UNCHANGED <<storeVars, lockVars>>

\* case event, ok := <-c.Send with ok: the event leaves the queue, the pump goes
\* on to SetWriteDeadline and writeJSON(event), a network write that can take
\* up to writeWait
WriteRecv(c) ==
    /\ ~panicked
    /\ wp[c] = "running"
    /\ Send[c] # <<>>
    /\ Send' = [Send EXCEPT ![c] = Tail(@)]
    /\ wp' = [wp EXCEPT ![c] = "writing"]
    /\ UNCHANGED <<hubVars, closed, closeOnce, Subscriptions, rp, panicked, histVars>>
    /\ UNCHANGED <<storeVars, lockVars>>

\* writeJSON(event) returns: the pump is back at its select, or the failed write
\* is logged before the pump returns
WriteEvent(c, ok) ==
    /\ ~panicked
    /\ wp[c] = "writing"
    /\ IF ok /\ ~connClosed(c)
       THEN /\ wp' = [wp EXCEPT ![c] = "running"]
            /\ UNCHANGED <<rp, panicked>>
       ELSE LoggerPanic("write", c)
    /\ UNCHANGED <<hubVars, Send, closed, closeOnce, Subscriptions, histVars>>
    /\ UNCHANGED <<storeVars, lockVars>>

\* case event, ok := <-c.Send with !ok (closed and drained): the close message is
\* written and the pump returns; a failed write is logged first
WriteClosed(c, ok) ==
    /\ ~panicked
    /\ wp[c] = "running"
    /\ Send[c] = <<>>
    /\ closed[c]
    /\ IF ok /\ ~connClosed(c)
       THEN /\ wp' = [wp EXCEPT ![c] = "done"]
            /\ UNCHANGED <<rp, panicked>>
       ELSE LoggerPanic("write", c)
    /\ UNCHANGED <<hubVars, Send, closed, closeOnce, Subscriptions, histVars>>
    /\ UNCHANGED <<storeVars, lockVars>>

\* case <-ticker.C with a failing ping write: logged before the pump returns
WritePingFail(c) ==
    /\ ~panicked
    /\ wp[c] = "running"
    /\ LoggerPanic("write", c)
    /\ UNCHANGED <<hubVars, Send, closed, closeOnce, Subscriptions, histVars>>
    /\ UNCHANGED <<storeVars, lockVars>>

ClientStep ==
    \/ \E c \in Clients : Connect(c)
    \/ \E c \in Clients, t \in Tickets : Subscribe(c, t)
    \/ \E c \in Clients, t \in Tickets : Unsubscribe(c, t)
    \/ \E c \in Clients : ReadInvalid(c)
    \/ \E c \in Clients, unexpected \in BOOLEAN : ReadExit(c, unexpected)
    \/ \E c \in Clients : ReadClose(c)
    \/ \E c \in Clients : WriteRecv(c)
    \/ \E c \in Clients, ok \in BOOLEAN : WriteEvent(c, ok)
    \/ \E c \in Clients, ok \in BOOLEAN : WriteClosed(c, ok)
    \/ \E c \in Clients : WritePingFail(c)

\* ===================================================== the relational store
Reqs == {"r1", "r2", "r3"}
Agents == {"a1"}
Statuses == {"OPEN", "IN_PROGRESS", "CLOSED"}
NoAssignee == "nil"
\* the ticket whose event log the catch-up reader follows
ReaderTicket == 1
\* the reader's page size (limit)
PageLimit == 1

NoTicket == [status |-> "-", assignee |-> "-", UpdatedAt |-> "-"]
NoRow == [id |-> 0]
IdleReq == [pc |-> "idle", op |-> "-", t |-> 0, arg |-> "-", local |-> NoTicket,
            row |-> NoRow, result |-> "-", wrote |-> FALSE]

StoreInit ==
    /\ tickets = [x \in {} |-> NoTicket]
    /\ ticketSeq = 0
    /\ comments = {}
    /\ ticket_events = {}
    /\ eventSeq = 0
    /\ req = [r \in Reqs |-> IdleReq]
    /\ bgo = {}
    /\ bcalls = {}
    /\ bret = "-"
    /\ cursor = 0
    /\ seen = <<>>

Init == HubInit /\ StoreInit

\* ---------------------------------------------------- domain/ticket.go
\* NewTicket: status OPEN, no assignee, UpdatedAt nil
NewTicket == [status |-> "OPEN", assignee |-> NoAssignee, UpdatedAt |-> "nil"]

\* a transition table in which a closed ticket can be reopened
validTransitions_Reopen(status) ==
    CASE status = "OPEN" -> {"IN_PROGRESS", "CLOSED"}
      [] status = "IN_PROGRESS" -> {"OPEN", "CLOSED"}
      [] status = "CLOSED" -> {"OPEN"}
      [] OTHER -> {}

\* validTransitions
validTransitions(status) ==
    CASE status = "OPEN" -> {"IN_PROGRESS", "CLOSED"}
      [] status = "IN_PROGRESS" -> {"OPEN", "CLOSED"}
      [] status = "CLOSED" -> {}
      [] OTHER -> {}

\* a check that also lets a ticket "move" to the status it has
CanTransitionTo_SameOk(ticket, newStatus) ==
    newStatus = ticket.status \/ newStatus \in validTransitions(ticket.status)

\* Ticket.CanTransitionTo
CanTransitionTo(ticket, newStatus) == newStatus \in validTransitions(ticket.status)

\* an UpdateStatus that stores the new status before it checks the transition
UpdateStatusOutcome_SetsFirst(ticket, newStatus) ==
    IF newStatus \notin Statuses
    THEN [err |-> "ErrInvalidStatus", ticket |-> ticket]
    ELSE IF ~CanTransitionTo(ticket, newStatus)
    THEN [err |-> "ErrInvalidStatusTransition",
          ticket |-> [ticket EXCEPT !.status = newStatus]]
    ELSE [err |-> "nil", ticket |-> [ticket EXCEPT !.status = newStatus, !.UpdatedAt = "now"]]

\* Ticket.UpdateStatus: the error it returns and the aggregate after the call
UpdateStatusOutcome(ticket, newStatus) ==
    IF newStatus \notin Statuses
    THEN [err |-> "ErrInvalidStatus", ticket |-> ticket]
    ELSE IF ~CanTransitionTo(ticket, newStatus)
    THEN [err |-> "ErrInvalidStatusTransition", ticket |-> ticket]
    ELSE [err |-> "nil", ticket |-> [ticket EXCEPT !.status = newStatus, !.UpdatedAt = "now"]]

\* an UpdateStatus that takes the status the ticket already has as done
TicketUpdateStatus_SameIsNoop(ticket, newStatus) ==
    IF newStatus = ticket.status THEN ticket
    ELSE IF UpdateStatusOutcome(ticket, newStatus).err # "nil" THEN NoTicket
    ELSE UpdateStatusOutcome(ticket, newStatus).ticket

\* Ticket.UpdateStatus as TicketService uses it: the ticket after the call, or
\* NoTicket for an error
TicketUpdateStatus(ticket, newStatus) ==
    IF UpdateStatusOutcome(ticket, newStatus).err # "nil" THEN NoTicket
    ELSE UpdateStatusOutcome(ticket, newStatus).ticket

\* an Assign without the "cannot assign a closed ticket" rule
TicketAssign_NoClosedCheck(ticket, assigneeID) ==
    IF assigneeID = NoAssignee THEN NoTicket
    ELSE [ticket EXCEPT !.assignee = assigneeID, !.UpdatedAt = "now"]

\* an Assign that also starts work on an OPEN ticket
AssignOutcome_StartsWork(ticket, assigneeID) ==
    IF assigneeID = NoAssignee THEN [err |-> "ValidationErrors", ticket |-> ticket]
    ELSE IF ticket.status = "CLOSED" THEN [err |-> "ErrCannotAssignClosed", ticket |-> ticket]
    ELSE [err |-> "nil",
          ticket |-> [ticket EXCEPT !.assignee = assigneeID, !.UpdatedAt = "now",
                                    !.status = IF @ = "OPEN" THEN "IN_PROGRESS" ELSE @]]

\* Ticket.Assign: the error it returns and the aggregate after the call
AssignOutcome(ticket, assigneeID) ==
    IF assigneeID = NoAssignee THEN [err |-> "ValidationErrors", ticket |-> ticket]
    ELSE IF ticket.status = "CLOSED" THEN [err |-> "ErrCannotAssignClosed", ticket |-> ticket]
    ELSE [err |-> "nil",
          ticket |-> [ticket EXCEPT !.assignee = assigneeID, !.UpdatedAt = "now"]]

\* Ticket.Unassign: the error it returns and the aggregate after the call
UnassignOutcome(ticket) ==
    IF ticket.status = "CLOSED" THEN [err |-> "ErrCannotAssignClosed", ticket |-> ticket]
    ELSE [err |-> "nil",
          ticket |-> [ticket EXCEPT !.assignee = NoAssignee, !.UpdatedAt = "now"]]

\* Ticket.Assign as TicketService uses it: the ticket after the call, or NoTicket
\* for an error
TicketAssign(ticket, assigneeID) ==
    IF AssignOutcome(ticket, assigneeID).err # "nil" THEN NoTicket
    ELSE AssignOutcome(ticket, assigneeID).ticket

\* services that all append the event type of UpdateStatus
EventTypeOf_AllStatus(op) == "STATUS_UPDATED"

\* the event type each mutation appends
EventTypeOf(op) ==
    CASE op = "create" -> "TICKET_CREATED"
      [] op = "status" -> "STATUS_UPDATED"
      [] op = "assign" -> "TICKET_ASSIGNED"
      [] op = "comment" -> "COMMENT_ADDED"

\* ------------------------------------------ postgres adapters (repositories)
\* TicketRepository.Create: INSERT through r.pool (its own connection, autocommit)
TicketRepoCreate(ticket) ==
    /\ ticketSeq' = ticketSeq + 1
    /\ tickets' = MapPut(tickets, ticketSeq + 1,
                          [status |-> ticket.status, assignee |-> NoAssignee,
                           UpdatedAt |-> "nil"])

\* TicketRepository.Update: UPDATE tickets SET status = $2, assignee_id = $3,
\* updated_at = $4 WHERE id = $1 through r.pool (its own connection, autocommit);
\* $4 is ticket.UpdatedAt, or the time of the call when that is nil
TicketRepoUpdate(id, ticket) ==
    /\ tickets' = [tickets EXCEPT ![id] =
                      [status |-> ticket.status, assignee |-> ticket.assignee,
                       UpdatedAt |-> IF ticket.UpdatedAt = "nil" THEN "now"
                                     ELSE ticket.UpdatedAt]]
    /\ UNCHANGED ticketSeq

\* CommentRepository.Create: INSERT through the pool (autocommit)
CommentRepoCreate(r, id) ==
    /\ comments' = comments \cup {[TicketID |-> id, req |-> r]}

\* an insert that computes the id as one above the highest id it can see,
\* instead of drawing it from the sequence
EventRepoCreate_MaxPlusOne(r, id, type, snapshot) ==
    /\ eventSeq' = eventSeq + 1
    /\ req' = [req EXCEPT ![r].row = [id |-> Cardinality(ticket_events) + 1,
                                      TicketID |-> id, Type |-> type,
                                      req |-> r, snapshot |-> snapshot],
                          ![r].pc = "commit"]

\* TicketEventRepository.Create inside the transaction GetDBTX finds in ctx:
\* the id is drawn from the sequence at once, the row is visible after commit
EventRepoCreate(r, id, type, snapshot) ==
    /\ eventSeq' = eventSeq + 1
    /\ req' = [req EXCEPT ![r].row = [id |-> eventSeq + 1, TicketID |-> id, Type |-> type,
                                      req |-> r, snapshot |-> snapshot],
                          ![r].pc = "commit"]

\* ListTicketEvents: WHERE ticket_id = $1 AND id > $2 ORDER BY id ASC LIMIT $3
RECURSIVE SortedIds(_)
SortedIds(S) == IF S = {} THEN <<>>
                ELSE LET m == CHOOSE x \in S : \A y \in S : x <= y
                     IN <<m>> \o SortedIds(S \ {m})

\* a query without the ticket_id = $1 condition
ListByTicketID_AnyTicket(ticketID, afterID, limit) ==
    LET ids == SortedIds({e.id : e \in {x \in ticket_events : x.id > afterID}})
    IN SubSeq(ids, 1, IF Len(ids) < limit THEN Len(ids) ELSE limit)

ListByTicketID(ticketID, afterID, limit) ==
    LET ids == SortedIds({e.id : e \in {x \in ticket_events :
                                          x.TicketID = ticketID /\ x.id > afterID}})
    IN SubSeq(ids, 1, IF Len(ids) < limit THEN Len(ids) ELSE limit)

\* ------------------------------------------------ request handlers, common
\* a step of a request handler: the Hub, the sessions and Broadcast's callers rest
hubIdle == UNCHANGED <<hubAll, bret>>

Finish(r, result) == [req EXCEPT ![r].pc = "done", ![r].result = result, ![r].row = NoRow]

\* the handler is entered: authorization (Authorizer.Can), then validation
ReqStart(r, op, t, arg, can) ==
    /\ ~panicked
    /\ req[r].pc = "idle"
    /\ req' = IF ~can THEN [req EXCEPT ![r] = [Finish(r, "forbidden")[r] EXCEPT
                                                  !.op = op, !.t = t, !.arg = arg]]
              ELSE [req EXCEPT ![r].op = op, ![r].t = t, ![r].arg = arg,
                               ![r].pc = IF op = "create" THEN "write" ELSE "get",
                               ![r].local = IF op = "create" THEN NewTicket ELSE NoTicket]
    /\ UNCHANGED <<tickets, ticketSeq, comments, ticket_events, eventSeq, bgo, bcalls,
                   cursor, seen>>
    /\ hubIdle

\* ticketRepo.GetByID, then the aggregate's UpdateStatus / Assign on the copy read
ReqGet(r) ==
    /\ ~panicked
    /\ req[r].pc = "get"
    /\ LET t == req[r].t
           after == CASE req[r].op = "status" -> TicketUpdateStatus(tickets[t], req[r].arg)
                      [] req[r].op = "assign" -> TicketAssign(tickets[t], req[r].arg)
                      [] OTHER -> tickets[t]
       IN req' = IF t \notin DOMAIN tickets THEN Finish(r, "notfound")
                 ELSE IF after = NoTicket THEN Finish(r, "invalid")
                 ELSE [req EXCEPT ![r].local = after, ![r].pc = "write"]
    /\ UNCHANGED <<tickets, ticketSeq, comments, ticket_events, eventSeq, bgo, bcalls,
                   cursor, seen>>
    /\ hubIdle

\* the row write of the mutation: ticketRepo.Create / ticketRepo.Update /
\* commentRepo.Create; ok says whether the statement succeeded
RepoWrite(r, ok) ==
    IF ~ok THEN UNCHANGED <<tickets, ticketSeq, comments>>
    ELSE CASE req[r].op = "create" -> TicketRepoCreate(req[r].local) /\ UNCHANGED comments
           [] req[r].op = "comment" -> CommentRepoCreate(r, req[r].t)
                                        /\ UNCHANGED <<tickets, ticketSeq>>
           [] OTHER -> TicketRepoUpdate(req[r].t, req[r].local) /\ UNCHANGED comments

\* ---------------------- TicketService / CommentService with txManager, eventRepo
\* WithTransaction begins; step (1) of fn: the row write
TxWrite(r, ok) ==
    /\ req[r].pc = "write"
    /\ RepoWrite(r, ok)
    /\ req' = IF ~ok THEN Finish(r, "err")
              ELSE [req EXCEPT ![r].pc = "event", ![r].wrote = TRUE,
                               ![r].t = IF req[r].op = "create" THEN ticketSeq + 1 ELSE @]
    /\ UNCHANGED <<ticket_events, eventSeq, bgo, bcalls, cursor, seen>>
    /\ hubIdle

\* steps (2) and (3) of fn: snapshot of the row the write returned, eventRepo.Create;
\* a failure makes fn return the error and WithTransaction roll the tx back
TxEvent(r, ok) ==
    /\ req[r].pc = "event"
    /\ IF ok
       THEN EventRepoCreate(r, req[r].t, EventTypeOf(req[r].op),
                            IF req[r].op = "comment" THEN NoTicket ELSE req[r].local)
       ELSE /\ req' = Finish(r, "err")
            /\ UNCHANGED eventSeq
    /\ UNCHANGED <<tickets, ticketSeq, comments, ticket_events, bgo, bcalls, cursor, seen>>
    /\ hubIdle

\* tx.Commit: the rows written inside the transaction become visible, or the
\* commit fails and they never do
TxCommit(r, ok) ==
    /\ req[r].pc = "commit"
    /\ ticket_events' = IF ok THEN ticket_events \cup {req[r].row} ELSE ticket_events
    /\ req' = Finish(r, IF ok THEN "ok" ELSE "err")
    /\ UNCHANGED <<tickets, ticketSeq, comments, eventSeq, bgo, bcalls, cursor, seen>>
    /\ hubIdle

\* ------------------------------------------------------- catch-up reader
\* EventService.ListTicketEvents with afterID = the last id returned so far
ReadPage ==
    /\ LET page == ListByTicketID(ReaderTicket, cursor, PageLimit) IN
       /\ page # <<>>
       /\ seen' = seen \o page
       /\ cursor' = page[Len(page)]
    /\ UNCHANGED <<tickets, ticketSeq, comments, ticket_events, eventSeq, req, bgo, bcalls>>
    /\ hubIdle

Ops == {"create", "status", "assign", "comment"}
ArgsOf(op) == CASE op = "status" -> Statuses
                [] op = "assign" -> Agents
                [] OTHER -> {"-"}
TargetsOf(op) == IF op = "create" THEN {0} ELSE Tickets

OutboxNext ==
    \/ \E r \in Reqs, op \in Ops, can \in BOOLEAN :
          \E t \in TargetsOf(op), arg \in ArgsOf(op) : ReqStart(r, op, t, arg, can)
    \/ \E r \in Reqs : ReqGet(r)
    \/ \E r \in Reqs, ok \in BOOLEAN : TxWrite(r, ok)
    \/ \E r \in Reqs, ok \in BOOLEAN : TxEvent(r, ok)
    \/ \E r \in Reqs, ok \in BOOLEAN : TxCommit(r, ok)
    \/ ReadPage

OutboxSpec == Init /\ [][OutboxNext]_vars

\* ==================================== UpdateStatus on every stored ticket
\* the rows table tickets can hold: a row never updated is OPEN and unassigned
TicketRows ==
    {NewTicket} \cup [status : Statuses, assignee : Agents \cup {NoAssignee}, UpdatedAt : {"now"}]

\* ticket 1 exists with any row; UpdateStatus requests for every target status
DomainInit ==
    /\ HubInit
    /\ \E row \in TicketRows : tickets = MapPut([x \in {} |-> NoTicket], 1, row)
    /\ ticketSeq = 1
    /\ comments = {}
    /\ ticket_events = {}
    /\ eventSeq = 0
    /\ req = [r \in Reqs |-> IdleReq]
    /\ bgo = {}
    /\ bcalls = {}
    /\ bret = "-"
    /\ cursor = 0
    /\ seen = <<>>

DomainNext ==
    \/ \E r \in Reqs, t \in Tickets, arg \in Statuses, can \in BOOLEAN :
          ReqStart(r, "status", t, arg, can)
    \/ \E r \in Reqs : ReqGet(r)

DomainSpec == DomainInit /\ [][DomainNext]_vars

\* ---- the Ticket aggregate's methods called on a ticket in memory
\* a status string that is no TicketStatus
BogusStatus == "INVALID"

\* ticket.UpdateStatus(newStatus) on the aggregate of a stored row: the request
\* keeps the aggregate as the call left it and the error the call returned
CallUpdateStatus(r, t, newStatus) ==
    /\ req[r].pc = "idle"
    /\ t \in DOMAIN tickets
    /\ req' = [req EXCEPT ![r] = [IdleReq EXCEPT
                 !.pc = "done", !.op = "status", !.t = t, !.arg = newStatus,
                 !.local = UpdateStatusOutcome(tickets[t], newStatus).ticket,
                 !.result = UpdateStatusOutcome(tickets[t], newStatus).err]]
    /\ UNCHANGED <<tickets, ticketSeq, comments, ticket_events, eventSeq, bgo, bcalls,
                   cursor, seen>>
    /\ hubIdle

\* ticket.Assign(assigneeID) on the aggregate of a stored row
CallAssign(r, t, assigneeID) ==
    /\ req[r].pc = "idle"
    /\ t \in DOMAIN tickets
    /\ req' = [req EXCEPT ![r] = [IdleReq EXCEPT
                 !.pc = "done", !.op = "assign", !.t = t, !.arg = assigneeID,
                 !.local = AssignOutcome(tickets[t], assigneeID).ticket,
                 !.result = AssignOutcome(tickets[t], assigneeID).err]]
    /\ UNCHANGED <<tickets, ticketSeq, comments, ticket_events, eventSeq, bgo, bcalls,
                   cursor, seen>>
    /\ hubIdle

\* ticket.Unassign() on the aggregate of a stored row
CallUnassign(r, t) ==
    /\ req[r].pc = "idle"
    /\ t \in DOMAIN tickets
    /\ req' = [req EXCEPT ![r] = [IdleReq EXCEPT
                 !.pc = "done", !.op = "unassign", !.t = t,
                 !.local = UnassignOutcome(tickets[t]).ticket,
                 !.result = UnassignOutcome(tickets[t]).err]]
    /\ UNCHANGED <<tickets, ticketSeq, comments, ticket_events, eventSeq, bgo, bcalls,
                   cursor, seen>>
    /\ hubIdle

AggNext ==
    \/ \E r \in Reqs, t \in Tickets, newStatus \in Statuses \cup {BogusStatus} :
          CallUpdateStatus(r, t, newStatus)
    \/ \E r \in Reqs, t \in Tickets, assigneeID \in Agents \cup {NoAssignee} :
          CallAssign(r, t, assigneeID)
    \/ \E r \in Reqs, t \in Tickets : CallUnassign(r, t)

AggSpec == DomainInit /\ [][AggNext]_vars

\* ================================ the registry methods, statement by statement
\* h.mu.Lock(): waits until no writer and no reader holds the mutex
Lock(p) ==
    /\ mu.w = "none"
    /\ mu.r = {}
    /\ mu' = [mu EXCEPT !.w = p]

\* h.mu.Unlock()
Unlock(p) == mu' = [mu EXCEPT !.w = "none"]

\* a read lock that does not wait for the writer
RLock_NoWait(p) == mu' = [mu EXCEPT !.r = @ \cup {p}]

\* h.mu.RLock(): waits until no writer holds the mutex
RLock(p) ==
    /\ mu.w = "none"
    /\ mu' = [mu EXCEPT !.r = @ \cup {p}]

\* h.mu.RUnlock()
RUnlock(p) == mu' = [mu EXCEPT !.r = @ \ {p}]

\* c.mu.Lock() by goroutine p: waits until no writer and no reader holds c.mu
CLock(c, p) ==
    /\ cmu[c] = NoLock
    /\ cmu' = [cmu EXCEPT ![c].w = p]

\* c.mu.Unlock()
CUnlock(c, p) == cmu' = [cmu EXCEPT ![c].w = "none"]

\* c.mu.RLock() by goroutine p: waits until no writer holds c.mu
CRLock(c, p) ==
    /\ cmu[c].w = "none"
    /\ cmu' = [cmu EXCEPT ![c].r = @ \cup {p}]

\* c.mu.RUnlock()
CRUnlock(c, p) == cmu' = [cmu EXCEPT ![c].r = @ \ {p}]

\* a subscribe that takes the session's lock before it asks for the Hub's
LkSubCall_ClientFirst(c, t) ==
    /\ ~panicked
    /\ rp[c] = "running" /\ ~connClosed(c) /\ cs[c].pc = "out"
    /\ t > 0
    /\ CLock(c, c)
    /\ cs' = [cs EXCEPT ![c] = [OutCs EXCEPT !.pc = "sub_lock", !.c = c, !.t = t]]
    /\ UNCHANGED <<hubVars, clientVars, histVars, mu>>
    /\ UNCHANGED storeVars

\* ReadPump: handleSubscribe calls subscribeClientToTicket
LkSubCall(c, t) ==
    /\ ~panicked
    /\ rp[c] = "running" /\ ~connClosed(c) /\ cs[c].pc = "out"
    /\ t > 0
    /\ cs' = [cs EXCEPT ![c] = [OutCs EXCEPT !.pc = "sub_lock", !.c = c, !.t = t]]
    /\ UNCHANGED <<hubVars, clientVars, histVars, mu, cmu>>
    /\ UNCHANGED storeVars

\* ReadPump: handleUnsubscribe calls unsubscribeClientFromTicket
LkUnsubCall(c, t) ==
    /\ ~panicked
    /\ rp[c] = "running" /\ ~connClosed(c) /\ cs[c].pc = "out"
    /\ cs' = [cs EXCEPT ![c] = [OutCs EXCEPT !.pc = "unsub_lock", !.c = c, !.t = t]]
    /\ UNCHANGED <<hubVars, clientVars, histVars, mu, cmu>>
    /\ UNCHANGED storeVars

\* the statement after h.mu.Lock() in each of the four methods
AfterLock(pc) ==
    CASE pc = "reg_lock" -> "reg_user"
      [] pc = "unreg_lock" -> "unreg_subs"
      [] pc = "sub_lock" -> "sub_room"
      [] pc = "unsub_lock" -> "unsub_del"

\* h.mu.Lock() at the head of registerClient, unregisterClient,
\* subscribeClientToTicket, unsubscribeClientFromTicket
LkLock(p) ==
    /\ ~panicked
    /\ cs[p].pc \in {"reg_lock", "unreg_lock", "sub_lock", "unsub_lock"}
    /\ Lock(p)
    /\ cs' = [cs EXCEPT ![p].pc = AfterLock(cs[p].pc)]
    /\ UNCHANGED cmu
    /\ UNCHANGED <<hubVars, clientVars, histVars>>
    /\ UNCHANGED storeVars

\* registerClient: if h.clients[client.UserID] == nil { ... = make(map) }
LkRegUser ==
    /\ ~panicked
    /\ cs["hub"].pc = "reg_user"
    /\ LET u == UserID(cs["hub"].c) IN
       clients' = IF u \in DOMAIN clients THEN clients ELSE MapPut(clients, u, {})
    /\ cs' = [cs EXCEPT !["hub"].pc = "reg_add"]
    /\ UNCHANGED <<rooms, broadcast, hubPc, hubEvent, hubPending, clientVars, histVars, mu, cmu>>
    /\ UNCHANGED storeVars

\* registerClient: h.clients[client.UserID][client] = true, deferred Unlock
LkRegAdd ==
    /\ ~panicked
    /\ cs["hub"].pc = "reg_add"
    /\ LET u == UserID(cs["hub"].c) IN
       clients' = MapPut(clients, u, clients[u] \cup {cs["hub"].c})
    /\ Unlock("hub")
    /\ cs' = [cs EXCEPT !["hub"] = OutCs]
    /\ UNCHANGED cmu
    /\ UNCHANGED <<rooms, broadcast, hubPc, hubEvent, hubPending, clientVars, histVars>>
    /\ UNCHANGED storeVars

\* unregisterClient calls client.GetSubscriptions(): c.mu.RLock()
LkUnregSubsLock ==
    /\ ~panicked
    /\ cs["hub"].pc = "unreg_subs"
    /\ CRLock(cs["hub"].c, "hub")
    /\ cs' = [cs EXCEPT !["hub"].pc = "unreg_subs_in"]
    /\ UNCHANGED <<hubVars, clientVars, histVars, mu>>
    /\ UNCHANGED storeVars

\* GetSubscriptions: the copy of c.Subscriptions, deferred c.mu.RUnlock();
\* unregisterClient: subscriptions := the copy
LkUnregSubs ==
    /\ ~panicked
    /\ cs["hub"].pc = "unreg_subs_in"
    /\ CRUnlock(cs["hub"].c, "hub")
    /\ cs' = [cs EXCEPT !["hub"].pc = "unreg_user",
                        !["hub"].subs = Subscriptions[cs["hub"].c]]
    /\ UNCHANGED <<hubVars, clientVars, histVars, mu>>
    /\ UNCHANGED storeVars

\* unregisterClient: delete(userClients, client)
LkUnregUser ==
    /\ ~panicked
    /\ cs["hub"].pc = "unreg_user"
    /\ LET c == cs["hub"].c
           u == UserID(c)
       IN IF u \in DOMAIN clients /\ c \in clients[u]
          THEN /\ clients' = MapPut(clients, u, clients[u] \ {c})
               /\ cs' = [cs EXCEPT !["hub"].pc = "unreg_usergc"]
          ELSE /\ UNCHANGED clients
               /\ cs' = [cs EXCEPT !["hub"].pc = "unreg_rooms"]
    /\ UNCHANGED <<rooms, broadcast, hubPc, hubEvent, hubPending, clientVars, histVars, mu, cmu>>
    /\ UNCHANGED storeVars

\* unregisterClient: if len(userClients) == 0 { delete(h.clients, client.UserID) }
LkUnregUserGc ==
    /\ ~panicked
    /\ cs["hub"].pc = "unreg_usergc"
    /\ LET u == UserID(cs["hub"].c) IN
       clients' = IF clients[u] = {} THEN MapDelete(clients, u) ELSE clients
    /\ cs' = [cs EXCEPT !["hub"].pc = "unreg_rooms"]
    /\ UNCHANGED <<rooms, broadcast, hubPc, hubEvent, hubPending, clientVars, histVars, mu, cmu>>
    /\ UNCHANGED storeVars

\* unregisterClient: the next ticketID of the loop, delete(room, client)
LkUnregRoom(t) ==
    /\ ~panicked
    /\ cs["hub"].pc = "unreg_rooms"
    /\ t \in cs["hub"].subs
    /\ IF t \in DOMAIN rooms
       THEN /\ rooms' = MapPut(rooms, t, rooms[t] \ {cs["hub"].c})
            /\ cs' = [cs EXCEPT !["hub"].pc = "unreg_roomgc", !["hub"].t = t]
       ELSE /\ UNCHANGED rooms
            /\ cs' = [cs EXCEPT !["hub"].subs = @ \ {t}]
    /\ UNCHANGED <<clients, broadcast, hubPc, hubEvent, hubPending, clientVars, histVars, mu, cmu>>
    /\ UNCHANGED storeVars

\* unregisterClient: if len(room) == 0 { delete(h.rooms, ticketID) }
LkUnregRoomGc ==
    /\ ~panicked
    /\ cs["hub"].pc = "unreg_roomgc"
    /\ LET t == cs["hub"].t IN
       /\ rooms' = IF rooms[t] = {} THEN MapDelete(rooms, t) ELSE rooms
       /\ cs' = [cs EXCEPT !["hub"].pc = "unreg_rooms", !["hub"].subs = @ \ {t},
                           !["hub"].t = 0]
    /\ UNCHANGED <<clients, broadcast, hubPc, hubEvent, hubPending, clientVars, histVars, mu, cmu>>
    /\ UNCHANGED storeVars

\* unregisterClient: client.CloseSend(), deferred Unlock
LkUnregClose ==
    /\ ~panicked
    /\ cs["hub"].pc = "unreg_rooms"
    /\ cs["hub"].subs = {}
    /\ CloseSend(cs["hub"].c)
    /\ unregCalls' = [unregCalls EXCEPT ![cs["hub"].c] = @ + 1]
    /\ Unlock("hub")
    /\ cs' = [cs EXCEPT !["hub"] = OutCs]
    /\ UNCHANGED cmu
    /\ UNCHANGED <<hubVars, Send, Subscriptions, rp, wp, nextSeq, enqLog>>
    /\ UNCHANGED storeVars

\* subscribeClientToTicket: if h.rooms[ticketID] == nil { ... = make(map) }
LkSubRoom(c) ==
    /\ ~panicked
    /\ cs[c].pc = "sub_room"
    /\ rooms' = IF cs[c].t \in DOMAIN rooms THEN rooms ELSE MapPut(rooms, cs[c].t, {})
    /\ cs' = [cs EXCEPT ![c].pc = "sub_add"]
    /\ UNCHANGED <<clients, broadcast, hubPc, hubEvent, hubPending, clientVars, histVars, mu, cmu>>
    /\ UNCHANGED storeVars

\* subscribeClientToTicket: h.rooms[ticketID][client] = true
LkSubAdd(c) ==
    /\ ~panicked
    /\ cs[c].pc = "sub_add"
    /\ rooms' = MapPut(rooms, cs[c].t, rooms[cs[c].t] \cup {c})
    /\ cs' = [cs EXCEPT ![c].pc = "sub_client"]
    /\ UNCHANGED <<clients, broadcast, hubPc, hubEvent, hubPending, clientVars, histVars, mu, cmu>>
    /\ UNCHANGED storeVars

\* subscribeClientToTicket calls client.AddSubscription(ticketID): c.mu.Lock()
LkSubClientLock(c) ==
    /\ ~panicked
    /\ cs[c].pc = "sub_client"
    /\ CLock(c, c)
    /\ cs' = [cs EXCEPT ![c].pc = "sub_client_in"]
    /\ UNCHANGED <<hubVars, clientVars, histVars, mu>>
    /\ UNCHANGED storeVars

\* AddSubscription: c.Subscriptions[ticketID] = true, deferred c.mu.Unlock();
\* subscribeClientToTicket: deferred h.mu.Unlock()
LkSubClient(c) ==
    /\ ~panicked
    /\ cs[c].pc = "sub_client_in"
    /\ Subscriptions' = [Subscriptions EXCEPT ![c] = @ \cup {cs[c].t}]
    /\ CUnlock(c, c)
    /\ Unlock(c)
    /\ cs' = [cs EXCEPT ![c] = OutCs]
    /\ UNCHANGED <<hubVars, Send, closed, closeOnce, rp, wp, panicked, histVars>>
    /\ UNCHANGED storeVars

\* unsubscribeClientFromTicket: if room, ok := h.rooms[ticketID]; ok { delete(room, client)
LkUnsubDel(c) ==
    /\ ~panicked
    /\ cs[c].pc = "unsub_del"
    /\ IF cs[c].t \in DOMAIN rooms
       THEN /\ rooms' = MapPut(rooms, cs[c].t, rooms[cs[c].t] \ {c})
            /\ cs' = [cs EXCEPT ![c].pc = "unsub_gc"]
       ELSE /\ UNCHANGED rooms
            /\ cs' = [cs EXCEPT ![c].pc = "unsub_client"]
    /\ UNCHANGED <<clients, broadcast, hubPc, hubEvent, hubPending, clientVars, histVars, mu, cmu>>
    /\ UNCHANGED storeVars

\* unsubscribeClientFromTicket: if len(room) == 0 { delete(h.rooms, ticketID) }
LkUnsubGc(c) ==
    /\ ~panicked
    /\ cs[c].pc = "unsub_gc"
    /\ rooms' = IF rooms[cs[c].t] = {} THEN MapDelete(rooms, cs[c].t) ELSE rooms
    /\ cs' = [cs EXCEPT ![c].pc = "unsub_client"]
    /\ UNCHANGED <<clients, broadcast, hubPc, hubEvent, hubPending, clientVars, histVars, mu, cmu>>
    /\ UNCHANGED storeVars

\* unsubscribeClientFromTicket calls client.RemoveSubscription(ticketID): c.mu.Lock()
LkUnsubClientLock(c) ==
    /\ ~panicked
    /\ cs[c].pc = "unsub_client"
    /\ CLock(c, c)
    /\ cs' = [cs EXCEPT ![c].pc = "unsub_client_in"]
    /\ UNCHANGED <<hubVars, clientVars, histVars, mu>>
    /\ UNCHANGED storeVars

\* RemoveSubscription: delete(c.Subscriptions, ticketID), deferred c.mu.Unlock();
\* unsubscribeClientFromTicket: deferred h.mu.Unlock()
LkUnsubClient(c) ==
    /\ ~panicked
    /\ cs[c].pc = "unsub_client_in"
    /\ Subscriptions' = [Subscriptions EXCEPT ![c] = @ \ {cs[c].t}]
    /\ CUnlock(c, c)
    /\ Unlock(c)
    /\ cs' = [cs EXCEPT ![c] = OutCs]
    /\ UNCHANGED <<hubVars, Send, closed, closeOnce, rp, wp, panicked, histVars>>
    /\ UNCHANGED storeVars

\* broadcastEvent: h.mu.RLock()
LkLookupLock ==
    /\ ~panicked
    /\ cs["hub"].pc = "lookup_lock"
    /\ RLock("hub")
    /\ cs' = [cs EXCEPT !["hub"].pc = "lookup"]
    /\ UNCHANGED cmu
    /\ UNCHANGED <<hubVars, clientVars, histVars>>
    /\ UNCHANGED storeVars

\* broadcastEvent: room, ok := h.rooms[event.TicketID], the copy of the room's
\* clients, h.mu.RUnlock()
LkLookup ==
    /\ ~panicked
    /\ cs["hub"].pc = "lookup"
    /\ IF hubEvent.TicketID \notin DOMAIN rooms
       THEN /\ hubEvent' = NoEvent
            /\ UNCHANGED <<hubPc, hubPending>>
       ELSE \E order \in Orders(rooms[hubEvent.TicketID]) :
               /\ hubPending' = order
               /\ hubPc' = IF order = <<>> THEN "select" ELSE "sending"
               /\ hubEvent' = IF order = <<>> THEN NoEvent ELSE hubEvent
    /\ RUnlock("hub")
    /\ cs' = [cs EXCEPT !["hub"] = OutCs]
    /\ UNCHANGED cmu
    /\ UNCHANGED <<clients, rooms, broadcast, clientVars, histVars>>
    /\ UNCHANGED storeVars

\* a service calls Hub.Broadcast with an event of ticket t
LkCallBroadcast(t) ==
    /\ ~panicked
    /\ Broadcast([seq |-> 0, TicketID |-> t, Type |-> "EVENT"])
    /\ UNCHANGED <<clients, rooms, hubPc, hubEvent, hubPending, clientVars, histVars,
                   lockVars>>
    /\ UNCHANGED <<tickets, ticketSeq, comments, ticket_events, eventSeq, req, bgo, bcalls,
                   cursor, seen>>

\* the ticket ids the sessions send in SUBSCRIBE_TO_TICKET / UNSUBSCRIBE_FROM_TICKET,
\* and of the events broadcast, where the registry methods are taken statement
\* by statement
LockTickets == {1}

LockNext ==
    \/ \E c \in Clients : Connect(c)
    \/ \E c \in Clients : HubRecvRegister(c)
    \/ \E c \in Clients : HubRecvUnregister(c)
    \/ \E c \in Clients, t \in LockTickets : LkSubCall(c, t)
    \/ \E c \in Clients, t \in LockTickets : LkUnsubCall(c, t)
    \/ \E p \in Procs : LkLock(p)
    \/ LkRegUser
    \/ LkRegAdd
    \/ LkUnregSubsLock
    \/ LkUnregSubs
    \/ LkUnregUser
    \/ LkUnregUserGc
    \/ \E t \in Tickets : LkUnregRoom(t)
    \/ LkUnregRoomGc
    \/ LkUnregClose
    \/ \E c \in Clients : LkSubRoom(c)
    \/ \E c \in Clients : LkSubAdd(c)
    \/ \E c \in Clients : LkSubClientLock(c)
    \/ \E c \in Clients : LkSubClient(c)
    \/ \E c \in Clients : LkUnsubDel(c)
    \/ \E c \in Clients : LkUnsubGc(c)
    \/ \E c \in Clients : LkUnsubClientLock(c)
    \/ \E c \in Clients : LkUnsubClient(c)
    \/ \E t \in LockTickets : LkCallBroadcast(t)
    \/ HubRecvBroadcast
    \/ LkLookupLock
    \/ LkLookup
    \/ HubSendOne
    \/ \E c \in Clients, unexpected \in BOOLEAN : ReadExit(c, unexpected)
    \/ \E c \in Clients : ReadInvalid(c)
    \/ \E c \in Clients : ReadClose(c)
    \/ \E c \in Clients : WriteRecv(c)
    \/ \E c \in Clients, ok \in BOOLEAN : WriteEvent(c, ok)
    \/ \E c \in Clients, ok \in BOOLEAN : WriteClosed(c, ok)
    \/ \E c \in Clients : WritePingFail(c)

LockSpec == Init /\ [][LockNext]_vars

\* ===================================== one caller, one call after another
\* the request slot of the caller
SeqReq == "r1"
\* ids the event log's sequence hands out in one behaviour
MaxLog == 4
\* the calls the caller makes: CreateTicket, UpdateStatus, AssignTicket
SeqOps == {"create", "status", "assign"}

\* the caller makes its next call; CreateTicket is its first successful one, the
\* later calls are about the ticket it made
SeqStart(op, t, arg, can) ==
    /\ eventSeq < MaxLog
    /\ op = "create" => DOMAIN tickets = {}
    /\ ReqStart(SeqReq, op, t, arg, can)

\* the call has returned; the caller is free to make another one
SeqReturn ==
    /\ req[SeqReq].pc = "done"
    /\ req' = [req EXCEPT ![SeqReq] = IdleReq]
    /\ UNCHANGED <<tickets, ticketSeq, comments, ticket_events, eventSeq, bgo, bcalls,
                   cursor, seen>>
    /\ hubIdle

SeqNext ==
    \/ \E op \in SeqOps, can \in BOOLEAN :
          \E t \in TargetsOf(op), arg \in ArgsOf(op) : SeqStart(op, t, arg, can)
    \/ ReqGet(SeqReq)
    \/ \E ok \in BOOLEAN : TxWrite(SeqReq, ok)
    \/ \E ok \in BOOLEAN : TxEvent(SeqReq, ok)
    \/ \E ok \in BOOLEAN : TxCommit(SeqReq, ok)
    \/ SeqReturn

SeqSpec == Init /\ [][SeqNext]_vars

\* ============================== GET /tickets/{ticketID}/events (catch-up read)
defaultEventsLimit == 50
maxEventsLimit == 200
\* ids the event log's sequence has handed out when the reads begin
LogIds == 3

\* a URL or query parameter as the handler receives it: not given, a decimal
\* numeral of n, or text that is no numeral
NoParam == [kind |-> "absent", n |-> 0]
Junk == [kind |-> "junk", n |-> 0]
Num(n) == [kind |-> "int", n |-> n]

TicketInputs == {Junk, Num(0)} \cup {Num(t) : t \in Tickets \cup {Cardinality(Tickets) + 1}}
AfterInputs == {NoParam, Junk, Num(-1)} \cup {Num(n) : n \in 0..LogIds}
LimitInputs == {NoParam, Junk, Num(0), Num(1), Num(2), Num(defaultEventsLimit),
                Num(maxEventsLimit), Num(maxEventsLimit + 1)}

\* parseEventQuery: the fields in error, afterID and limit (0, 0 on error)
parseEventQuery(after, limit) ==
    LET afterBad == after.kind = "junk" \/ (after.kind = "int" /\ after.n < 0)
        afterID == IF after.kind = "int" /\ after.n >= 0 THEN after.n ELSE 0
        limitBad == limit.kind = "junk" \/ (limit.kind = "int" /\ limit.n <= 0)
        lim == IF limit.kind = "int" /\ limit.n > 0 THEN limit.n ELSE defaultEventsLimit
        errors == (IF afterBad THEN {"after"} ELSE {})
                    \cup (IF limitBad \/ lim > maxEventsLimit THEN {"limit"} ELSE {})
    IN IF errors # {} THEN [errors |-> errors, afterID |-> 0, limit |-> 0]
       ELSE [errors |-> {}, afterID |-> afterID, limit |-> lim]

\* a response that takes the cursor from the first event of the page
NextCursorOf_First(events) == IF Len(events) > 0 THEN <<events[1]>> ELSE <<>>

\* nextCursor of the response: the ID of the last event, nil (<<>>) for no events
NextCursorOf(events) == IF Len(events) > 0 THEN <<events[Len(events)]>> ELSE <<>>

Refusal(status, errors) ==
    [status |-> status, errors |-> errors, data |-> <<>>, nextCursor |-> <<>>]

\* HandleListTicketEvents: claims, parseTicketID, parseEventQuery, then
\* EventService.ListTicketEvents (GetTicket for authorization, ListByTicketID)
\* and the response; the caller keeps nextCursor as its cursor
HandleListTicketEvents(r, claims, ticket, after, limit, can, ok) ==
    /\ req[r].pc = "idle"
    /\ LET q == parseEventQuery(after, limit)
           response ==
             IF ~claims THEN Refusal("unauthorized", {})
             ELSE IF ticket.kind # "int" \/ ticket.n <= 0
                  THEN Refusal("validation", {"ticketID"})
             ELSE IF q.errors # {} THEN Refusal("validation", q.errors)
             ELSE IF ~can THEN Refusal("forbidden", {})
             ELSE IF ticket.n \notin DOMAIN tickets THEN Refusal("notfound", {})
             ELSE IF ~ok THEN Refusal("err", {})
             ELSE LET events == ListByTicketID(ticket.n, q.afterID, q.limit)
                  IN [status |-> "ok", errors |-> {}, data |-> events,
                      nextCursor |-> NextCursorOf(events)]
       IN /\ req' = [req EXCEPT ![r] = [IdleReq EXCEPT !.pc = "done", !.op = "events",
                                                       !.t = ticket.n,
                                                       !.arg = <<after, limit>>,
                                                       !.result = response]]
          /\ cursor' = IF response.nextCursor # <<>> THEN response.nextCursor[1]
                       ELSE cursor
    /\ UNCHANGED <<tickets, ticketSeq, comments, ticket_events, eventSeq, bgo, bcalls, seen>>
    /\ hubIdle

\* the logs a read can meet: comments on two tickets, committed under some of
\* the ids drawn so far
CatchUpLogs ==
    UNION {{ {[id |-> i, TicketID |-> owner[i], Type |-> "COMMENT_ADDED",
               req |-> SeqReq, snapshot |-> NoTicket] : i \in S}
             : owner \in [S -> Tickets]} : S \in SUBSET (1..LogIds)}

CatchUpInit ==
    /\ HubInit
    /\ tickets = [t \in Tickets |-> NewTicket]
    /\ ticketSeq = Cardinality(Tickets)
    /\ ticket_events \in CatchUpLogs
    /\ comments = {[TicketID |-> e.TicketID, req |-> SeqReq] : e \in ticket_events}
    /\ eventSeq = LogIds
    /\ req = [r \in Reqs |-> IdleReq]
    /\ bgo = {}
    /\ bcalls = {}
    /\ bret = "-"
    /\ cursor = 0
    /\ seen = <<>>

CatchUpNext ==
    \/ \E claims \in BOOLEAN, can \in BOOLEAN, ok \in BOOLEAN :
          \E ticket \in TicketInputs, after \in AfterInputs, limit \in LimitInputs :
              HandleListTicketEvents(SeqReq, claims, ticket, after, limit, can, ok)
    \/ SeqReturn

CatchUpSpec == CatchUpInit /\ [][CatchUpNext]_vars

\* ================================== CreateTicket with its parameters
MaxTitleLength == 255
MaxDescriptionLength == 10000
\* tickets stored in one behaviour
MaxCreated == 2

Priorities == {"LOW", "MEDIUM", "HIGH"}

\* the parameters of a call: Title and Description stand for len() of the
\* strings, the only thing Validate asks of them
TitleInputs == {0, 1, MaxTitleLength, MaxTitleLength + 1}
DescriptionInputs == {0, MaxDescriptionLength, MaxDescriptionLength + 1}
PriorityInputs == Priorities \cup {"", "URGENT"}
RequesterInputs == {"nil", "u1"}
CreateInputs == [Title : TitleInputs, Description : DescriptionInputs,
                 Priority : PriorityInputs, RequesterID : RequesterInputs]

\* a Validate that returns at the first violated field
Validate_FirstOnly(p) ==
    IF p.Title = 0 \/ p.Title > MaxTitleLength THEN {"title"}
    ELSE IF p.Description > MaxDescriptionLength THEN {"description"}
    ELSE IF p.Priority \notin Priorities THEN {"priority"}
    ELSE IF p.RequesterID = "nil" THEN {"requesterId"}
    ELSE {}

\* TicketParams.Validate: the fields of the ValidationErrors it returns ({} for nil)
Validate(p) ==
    (IF p.Title = 0 \/ p.Title > MaxTitleLength THEN {"title"} ELSE {})
      \cup (IF p.Description > MaxDescriptionLength THEN {"description"} ELSE {})
      \cup (IF p.Priority \notin Priorities THEN {"priority"} ELSE {})
      \cup (IF p.RequesterID = "nil" THEN {"requesterId"} ELSE {})

\* CreateTicket up to WithTransaction: authzSvc.Can, then domain.NewTicket, which
\* returns Validate's errors or the OPEN ticket
CreateCall(r, p, can) ==
    /\ req[r].pc = "idle"
    /\ eventSeq < MaxLog
    /\ ticketSeq < MaxCreated
    /\ req' = IF ~can
              THEN [req EXCEPT ![r] = [Finish(r, "forbidden")[r] EXCEPT
                                          !.op = "create", !.arg = p]]
              ELSE IF Validate(p) # {}
              THEN [req EXCEPT ![r] = [Finish(r, "validation")[r] EXCEPT
                                          !.op = "create", !.arg = p,
                                          !.row = [id |-> 0, errors |-> Validate(p)]]]
              ELSE [req EXCEPT ![r].op = "create", ![r].arg = p, ![r].pc = "write",
                               ![r].local = NewTicket]
    /\ UNCHANGED <<tickets, ticketSeq, comments, ticket_events, eventSeq, bgo, bcalls,
                   cursor, seen>>
    /\ hubIdle

CreateNext ==
    \/ \E p \in CreateInputs, can \in BOOLEAN : CreateCall(SeqReq, p, can)
    \/ \E ok \in BOOLEAN : TxWrite(SeqReq, ok)
    \/ \E ok \in BOOLEAN : TxEvent(SeqReq, ok)
    \/ \E ok \in BOOLEAN : TxCommit(SeqReq, ok)
    \/ SeqReturn

CreateSpec == Init /\ [][CreateNext]_vars

\* ------------- TicketService / CommentService holding an EventBroadcaster
\* the handler spawns "go s.broadcaster.Broadcast(event)" after its repository
\* call: UpdateStatus and CreateComment do, past the error return
SpawnsBroadcast_Always(op, ok) == op \in {"status", "comment"}

SpawnsBroadcast(op, ok) == ok /\ op \in {"status", "comment"}

\* ticketRepo.Create / ticketRepo.Update / commentRepo.Create, the error return,
\* the go statement, and the handler's return
SvcWrite(r, ok) ==
    /\ ~panicked
    /\ req[r].pc = "write"
    /\ RepoWrite(r, ok)
    /\ req' = [Finish(r, IF ok THEN "ok" ELSE "err") EXCEPT
                  ![r].wrote = ok,
                  ![r].t = IF ok /\ req[r].op = "create" THEN ticketSeq + 1 ELSE @]
    /\ bgo' = IF SpawnsBroadcast(req[r].op, ok) THEN bgo \cup {r} ELSE bgo
    /\ UNCHANGED <<ticket_events, eventSeq, bcalls, cursor, seen>>
    /\ hubIdle

\* a handler that waits for Broadcast and fails the call on a dropped event
AfterBroadcast_FailOnDrop(r, enqueued) ==
    IF enqueued THEN req ELSE [req EXCEPT ![r].result = "err"]

\* the requests once r's Broadcast returned: the goroutine discards the
\* result, the handler has returned already
AfterBroadcast(r, enqueued) == req

\* the spawned goroutine runs: Hub.Broadcast(event)
BroadcastGo(r) ==
    /\ ~panicked
    /\ r \in bgo
    /\ bgo' = bgo \ {r}
    /\ bcalls' = bcalls \cup {r}
    /\ nextSeq' = nextSeq + 1
    /\ Broadcast([seq |-> nextSeq + 1, TicketID |-> req[r].t, Type |-> EventTypeOf(req[r].op)])
    /\ req' = AfterBroadcast(r, Len(broadcast) < BroadcastCap)
    /\ UNCHANGED <<clients, rooms, hubPc, hubEvent, hubPending, clientVars,
                   enqLog, closeCount, unregCalls>>
    /\ UNCHANGED <<tickets, ticketSeq, comments, ticket_events, eventSeq, cursor, seen>>
    /\ UNCHANGED lockVars

\* ticket 1 exists, OPEN and unassigned; both sessions are registered with
\* running pumps and subscribed to it, empty outbound queues, the Hub idle in
\* its select
SvcInit ==
    /\ LockInit
    /\ clients = [u \in Users |-> Clients]
    /\ rooms = MapPut(EmptyMap, 1, Clients)
    /\ Subscriptions = [c \in Clients |-> {1}]
    /\ broadcast = <<>>
    /\ hubPc = "select"
    /\ hubEvent = NoEvent
    /\ hubPending = <<>>
    /\ Send = [c \in Clients |-> <<>>]
    /\ closed = [c \in Clients |-> FALSE]
    /\ closeOnce = [c \in Clients |-> FALSE]
    /\ rp = [c \in Clients |-> "running"]
    /\ wp = [c \in Clients |-> "running"]
    /\ panicked = FALSE
    /\ nextSeq = 0
    /\ enqLog = [c \in Clients |-> {}]
    /\ closeCount = [c \in Clients |-> 0]
    /\ unregCalls = [c \in Clients |-> 0]
    /\ tickets = MapPut([x \in {} |-> NoTicket], 1, NewTicket)
    /\ ticketSeq = 1
    /\ comments = {}
    /\ ticket_events = {}
    /\ eventSeq = 0
    /\ req = [r \in Reqs |-> IdleReq]
    /\ bgo = {}
    /\ bcalls = {}
    /\ bret = "-"
    /\ cursor = 0
    /\ seen = <<>>

\* the handlers, their Broadcast goroutines, and the delivery that follows on
\* the Hub's goroutine and the sessions' WritePumps
SvcNext ==
    \/ \E r \in Reqs, op \in Ops, can \in BOOLEAN :
          \E t \in TargetsOf(op), arg \in ArgsOf(op) : ReqStart(r, op, t, arg, can)
    \/ \E r \in Reqs : ReqGet(r)
    \/ \E r \in Reqs, ok \in BOOLEAN : SvcWrite(r, ok)
    \/ \E r \in Reqs : BroadcastGo(r)
    \/ HubRecvBroadcast
    \/ HubLookup
    \/ HubSendOne
    \/ \E c \in Clients : WriteRecv(c)
    \/ \E c \in Clients, ok \in BOOLEAN : WriteEvent(c, ok)
    \/ \E c \in Clients : WritePingFail(c)

SvcSpec == SvcInit /\ [][SvcNext]_vars

\* ============================================ unregisterClient, repeatedly
\* how many times Unregister(c) is processed for one session
MaxUnreg == 2

\* the registry with the sessions of R registered and subscribed as subs says
UnregInit ==
    /\ LockInit
    /\ \E R \in SUBSET Clients : \E subs \in [R -> SUBSET Tickets] :
          /\ clients = IF R = {} THEN EmptyMap ELSE [u \in Users |-> R]
          /\ Subscriptions = [c \in Clients |-> IF c \in R THEN subs[c] ELSE {}]
          /\ rooms = [t \in {t \in Tickets : \E c \in R : t \in subs[c]} |->
                         {c \in R : t \in subs[c]}]
          /\ rp = [c \in Clients |-> IF c \in R THEN "running" ELSE "none"]
          /\ wp = [c \in Clients |-> IF c \in R THEN "running" ELSE "none"]
    /\ broadcast = <<>>
    /\ hubPc = "select"
    /\ hubEvent = NoEvent
    /\ hubPending = <<>>
    /\ Send = [c \in Clients |-> <<>>]
    /\ closed = [c \in Clients |-> FALSE]
    /\ closeOnce = [c \in Clients |-> FALSE]
    /\ panicked = FALSE
    /\ nextSeq = 0
    /\ enqLog = [c \in Clients |-> {}]
    /\ closeCount = [c \in Clients |-> 0]
    /\ unregCalls = [c \in Clients |-> 0]
    /\ StoreInit

\* Run takes c from h.Unregister and calls unregisterClient(c)
UnregCall(c) ==
    /\ unregCalls[c] < MaxUnreg
    /\ unregisterClient(c)
    /\ UNCHANGED <<broadcast, hubPc, hubEvent, hubPending, Send, Subscriptions, rp, wp,
                   nextSeq, enqLog>>
    /\ UNCHANGED <<storeVars, lockVars>>

UnregNext == \E c \in Clients : UnregCall(c)

UnregSpec == UnregInit /\ [][UnregNext]_vars

Next ==
    \/ HubStep
    \/ ClientStep
    \/ \E t \in Tickets : CallBroadcast(t)

Spec == Init /\ [][Next]_vars

\* The Go scheduler runs a runnable goroutine: the Hub's loop takes its next step
\* whenever it can.  Nothing is assumed of the peers or of the network.
FairSpec == Spec /\ WF_vars(HubStep)

\* a step of c's WritePump on its queue: the goroutine is runnable whenever
\* c.Send holds an event or is closed, and its write returns within writeWait
WritePumpStep(c) ==
    \/ WriteRecv(c)
    \/ \E ok \in BOOLEAN : WriteEvent(c, ok)
    \/ \E ok \in BOOLEAN : WriteClosed(c, ok)

\* ReadMessage fails once the connection is closed: ReadPump leaves its loop
ReadExitOnClose(c) == connClosed(c) /\ ReadExit(c, FALSE)

\* The Go scheduler runs every runnable goroutine: the Hub's loop, each
\* WritePump with something to receive, each ReadPump whose connection is
\* closed or whose Unregister send was received.  Nothing is assumed of the
\* peers or of the network.
LiveSpec ==
    /\ Spec
    /\ WF_vars(HubStep)
    /\ \A c \in Clients :
          WF_vars(WritePumpStep(c)) /\ WF_vars(ReadExitOnClose(c)) /\ WF_vars(ReadClose(c))

\* ============================================== session teardown, in isolation
\* the contents c.Send can have when the session's teardown starts
SendStates == UNION {[1..n -> {[seq |-> 0, TicketID |-> t, Type |-> "EVENT"] : t \in Tickets}]
                        : n \in 0..SendCap}

\* both sessions registered with running pumps, any subscriptions, any events
\* queued on their outbound queues, the Hub idle in its select
PumpInit ==
    /\ LockInit
    /\ \E subs \in [Clients -> SUBSET Tickets] :
          /\ Subscriptions = subs
          /\ rooms = [t \in {t \in Tickets : \E c \in Clients : t \in subs[c]} |->
                         {c \in Clients : t \in subs[c]}]
    /\ Send \in [Clients -> SendStates]
    /\ enqLog = [c \in Clients |-> {Send[c][i].seq : i \in 1..Len(Send[c])}]
    /\ clients = [u \in Users |-> Clients]
    /\ broadcast = <<>>
    /\ hubPc = "select"
    /\ hubEvent = NoEvent
    /\ hubPending = <<>>
    /\ rp = [c \in Clients |-> "running"]
    /\ wp = [c \in Clients |-> "running"]
    /\ closed = [c \in Clients |-> FALSE]
    /\ closeOnce = [c \in Clients |-> FALSE]
    /\ panicked = FALSE
    /\ nextSeq = 0
    /\ closeCount = [c \in Clients |-> 0]
    /\ unregCalls = [c \in Clients |-> 0]
    /\ StoreInit

PumpNext ==
    \/ \E c \in Clients : ReadInvalid(c)
    \/ \E c \in Clients, unexpected \in BOOLEAN : ReadExit(c, unexpected)
    \/ \E c \in Clients : HubRecvUnregister(c)
    \/ HubUnregisterClient
    \/ \E c \in Clients : ReadClose(c)
    \/ \E c \in Clients : WriteRecv(c)
    \/ \E c \in Clients, ok \in BOOLEAN : WriteEvent(c, ok)
    \/ \E c \in Clients, ok \in BOOLEAN : WriteClosed(c, ok)
    \/ \E c \in Clients : WritePingFail(c)

\* each WritePump is scheduled while it has something to receive
PumpSpec == PumpInit /\ [][PumpNext]_vars /\ \A c \in Clients : WF_vars(WritePumpStep(c))

\* ===================================== PING messages read by the ReadPump
\* a handler that has no reply for PING
sendPong_NoReply(c, pong) == UNCHANGED <<Send, enqLog, panicked>>

\* Client.sendPong: select { case c.Send <- PONG: default: }; a send on a closed
\* channel panics
sendPong(c, pong) ==
    IF closed[c]
    THEN /\ panicked' = TRUE
         /\ UNCHANGED <<Send, enqLog>>
    ELSE /\ Send' = [Send EXCEPT ![c] = IF Len(@) < SendCap THEN Append(@, pong) ELSE @]
         /\ enqLog' = [enqLog EXCEPT ![c] = IF Len(Send[c]) < SendCap
                                            THEN @ \cup {pong.seq} ELSE @]
         /\ UNCHANGED panicked

\* ReadPump: ReadMessage returned a PING message, handleIncomingMessage calls
\* sendPong (seq numbers the messages for the history only)
ReadPing(c) ==
    /\ ~panicked
    /\ rp[c] = "running"
    /\ ~connClosed(c)
    /\ nextSeq < MaxEvents
    /\ nextSeq' = nextSeq + 1
    /\ sendPong(c, [PongEvent EXCEPT !.seq = nextSeq + 1])
    /\ UNCHANGED <<hubVars, closed, closeOnce, Subscriptions, rp, wp, closeCount,
                   unregCalls, lockVars>>
    /\ UNCHANGED storeVars

\* both sessions registered with running pumps and no subscriptions, empty
\* outbound queues (the PONGs fill them)
PingInit ==
    /\ PumpInit
    /\ Subscriptions = [c \in Clients |-> {}]
    /\ Send = [c \in Clients |-> <<>>]

PingNext ==
    \/ PumpNext
    \/ \E c \in Clients : ReadPing(c)

\* each WritePump is scheduled while it has something to receive
PingSpec == PingInit /\ [][PingNext]_vars /\ \A c \in Clients : WF_vars(WritePumpStep(c))

\* ================================== Hub.SendToUser against session teardown
\* the event a caller hands to SendToUser
DirectEvent == [seq |-> 0, TicketID |-> 0, Type |-> "DIRECT"]

\* SendToUser up to h.mu.RUnlock(): the user's sessions are looked up and copied
\* under the read lock; an unknown user ends the call
SendToUserLookup(u) ==
    /\ ~panicked
    /\ cs["sender"].pc = "out"
    /\ mu.w = "none"
    /\ cs' = IF u \in DOMAIN clients
             THEN [cs EXCEPT !["sender"].pc = "direct", !["sender"].clientList = clients[u]]
             ELSE cs
    /\ UNCHANGED <<hubVars, clientVars, histVars, mu, cmu>>
    /\ UNCHANGED storeVars

\* one iteration of SendToUser's loop over clientList (a copy of a Go map, any
\* order): select { case client.Send <- event: default: }; a send on a closed
\* channel panics
SendToUserOne(c) ==
    /\ ~panicked
    /\ cs["sender"].pc = "direct"
    /\ c \in cs["sender"].clientList
    /\ IF closed[c]
       THEN /\ panicked' = TRUE
            /\ UNCHANGED <<Send, enqLog, cs>>
       ELSE /\ Send' = [Send EXCEPT ![c] = IF Len(@) < SendCap
                                           THEN Append(@, DirectEvent) ELSE @]
            /\ enqLog' = [enqLog EXCEPT ![c] = IF Len(Send[c]) < SendCap
                                               THEN @ \cup {DirectEvent.seq} ELSE @]
            /\ cs' = [cs EXCEPT !["sender"] =
                        IF cs["sender"].clientList = {c} THEN OutCs
                        ELSE [@ EXCEPT !.clientList = @ \ {c}]]
            /\ UNCHANGED panicked
    /\ UNCHANGED <<hubVars, closed, closeOnce, Subscriptions, rp, wp, nextSeq, closeCount,
                   unregCalls, mu, cmu>>
    /\ UNCHANGED storeVars

\* both sessions registered with running pumps and subscribed to ticket 1,
\* empty outbound queues
DirectInit ==
    /\ PumpInit
    /\ Subscriptions = [c \in Clients |-> {1}]
    /\ Send = [c \in Clients |-> <<>>]

\* the three senders on c.Send (broadcastEvent, SendToUser, sendPong) and the
\* teardown of the sessions
DirectNext ==
    \/ PumpNext
    \/ \E c \in Clients : ReadPing(c)
    \/ \E t \in Tickets : CallBroadcast(t)
    \/ HubRecvBroadcast
    \/ HubLookup
    \/ HubSendOne
    \/ \E u \in Users : SendToUserLookup(u)
    \/ \E c \in Clients : SendToUserOne(c)

DirectSpec == DirectInit /\ [][DirectNext]_vars

\* ============================================ the order of delivery
\* capacity of c.Send where the order of the queued events is observed
OrderCap == 2

\* Broadcast calls, the dispatch loop and the sessions' pumps, with outbound
\* queues that hold more than one event
OrderNext ==
    \/ PumpNext
    \/ \E t \in Tickets : CallBroadcast(t)
    \/ HubRecvBroadcast
    \/ HubLookup
    \/ HubSendOneCap(OrderCap)

OrderSpec == DirectInit /\ [][OrderNext]_vars

\* ===================================== the registry without any broadcast
\* sessions connect, are registered, subscribe and unsubscribe, and leave; no
\* event is broadcast and the WritePumps have nothing to write
RegistryNext ==
    \/ \E c \in Clients : Connect(c)
    \/ \E c \in Clients : HubRecvRegister(c)
    \/ HubRegisterClient
    \/ \E c \in Clients, t \in Tickets : Subscribe(c, t)
    \/ \E c \in Clients, t \in Tickets : Unsubscribe(c, t)
    \/ \E c \in Clients, unexpected \in BOOLEAN : ReadExit(c, unexpected)
    \/ \E c \in Clients : HubRecvUnregister(c)
    \/ HubUnregisterClient
    \/ \E c \in Clients : ReadClose(c)

RegistrySpec == Init /\ [][RegistryNext]_vars

\* ================================================ Hub.Broadcast, hub states
\* an event put on h.broadcast before the calls that are observed
QueuedEvent(t) == [seq |-> 0, TicketID |-> t, Type |-> "EVENT"]

\* capacity of h.broadcast where Broadcast is called on every content of the
\* queue (256 in the source, scaled down)
BcastQueueCap == 2

\* the contents h.broadcast can have: empty, partly full, saturated
QueueStates == UNION {[1..n -> {QueuedEvent(t) : t \in Tickets}] : n \in 0..BcastQueueCap}

\* Hub states with both sessions registered: any subscriptions, any of the
\* outbound queues full, any dispatch queue, the loop idle in its select, busy
\* in broadcastEvent's send loop, or at its Unregister send for a full member
BcastInit ==
    /\ LockInit
    /\ \E subs \in [Clients -> SUBSET Tickets], full \in SUBSET Clients :
          /\ Subscriptions = subs
          /\ rooms = [t \in {t \in Tickets : \E c \in Clients : t \in subs[c]} |->
                         {c \in Clients : t \in subs[c]}]
          /\ Send = [c \in Clients |-> IF c \in full THEN [i \in 1..SendCap |-> PongEvent]
                                       ELSE <<>>]
          /\ \/ hubPc = "select" /\ hubEvent = NoEvent /\ hubPending = <<>>
             \/ \E t \in Tickets : \E order \in Orders({c \in Clients : t \in subs[c]}) :
                   /\ order # <<>>
                   /\ hubEvent = QueuedEvent(t)
                   /\ hubPending = order
                   /\ hubPc \in IF Head(order) \in full THEN {"sending", "evict"}
                                ELSE {"sending"}
    /\ clients = [u \in Users |-> Clients]
    /\ broadcast \in QueueStates
    /\ rp = [c \in Clients |-> "running"]
    /\ wp = [c \in Clients |-> "running"]
    /\ closed = [c \in Clients |-> FALSE]
    /\ closeOnce = [c \in Clients |-> FALSE]
    /\ panicked = FALSE
    /\ nextSeq = 0
    /\ enqLog = [c \in Clients |-> {}]
    /\ closeCount = [c \in Clients |-> 0]
    /\ unregCalls = [c \in Clients |-> 0]
    /\ StoreInit

BcastNext == \E t \in Tickets : CallBroadcastOn(BcastQueueCap, t)

BcastSpec == BcastInit /\ [][BcastNext]_vars

\* ========================================================= claims on the Hub
\* the sessions a sequence of sessions names
Range(q) == {q[i] : i \in 1..Len(q)}

\* C1: when broadcastEvent finds a member whose outbound queue is full, the
\* dispatch loop is not blocked: Hub.Run can take a further step (finish the
\* eviction and go on to later Register, Unregister and broadcast items).
C1_DispatchNeverBlocks == hubPc = "evict" => ENABLED HubStep

\* C6: a session that is in room T while an event of T sits accepted in the
\* dispatch queue eventually has the event put on its outbound queue, or is no
\* longer a member of room T (evicted, so that the room's membership shrank);
\* a run in which the process has died of a panic is not held against the claim.
C6_SubscriberGetsEventOrLeavesRoom ==
    \A c \in Clients, n \in 1..MaxEvents, t \in Tickets :
        (\E i \in 1..Len(broadcast) :
            /\ broadcast[i].seq = n
            /\ broadcast[i].TicketID = t
            /\ c \in MapGet(rooms, t))
        ~> (n \in enqLog[c] \/ c \notin MapGet(rooms, t) \/ panicked)

\* C7: when a member of room T is found full during the dispatch of an event,
\* every other member still to be served that has spare capacity eventually
\* receives that event (unless it leaves the room by itself meanwhile, or the
\* process has died of a panic).
C7_EvictionDoesNotStarveOthers ==
    \A d \in Clients, n \in 1..MaxEvents, t \in Tickets :
        (/\ hubPc = "evict"
         /\ hubEvent.seq = n
         /\ hubEvent.TicketID = t
         /\ d \in Range(Tail(hubPending))
         /\ ~closed[d]
         /\ Len(Send[d]) < SendCap)
        ~> (n \in enqLog[d] \/ d \notin MapGet(rooms, t) \/ panicked)

\* C8: Unregister is idempotent: every call of unregisterClient(c) leaves c's
\* outbound queue closed exactly once and fails nowhere, and the second and
\* later calls leave the user index, the rooms and the queue as they were
C8_UnregisterIdempotent ==
    [][\A c \in Clients :
          unregCalls'[c] > unregCalls[c] =>
              /\ closeCount'[c] = 1
              /\ closed'[c]
              /\ ~panicked'
              /\ (unregCalls[c] >= 1 =>
                     /\ clients' = clients
                     /\ rooms' = rooms
                     /\ closed' = closed
                     /\ Send' = Send)]_vars

\* a session that was registered with a subscription has been unregistered twice
C8_Witness ==
    \E c \in Clients : /\ unregCalls[c] >= 2
                       /\ closeCount[c] = 1
                       /\ Subscriptions[c] # {}
                       /\ \A t \in Subscriptions[c] : c \notin MapGet(rooms, t)

\* ======================================================= claims on the store
\* the committed event rows of request r
EventsOf(r) == {e \in ticket_events : e.req = r}

\* C2: outbox atomicity: a request that has returned left its ticket/comment
\* write persisted exactly when it left one committed event row, and a request
\* that failed left neither
C2_OutboxAtomic ==
    \A r \in Reqs :
        req[r].pc = "done" =>
            /\ req[r].wrote <=> Cardinality(EventsOf(r)) = 1
            /\ req[r].result # "ok" => ~req[r].wrote

\* C3: no event of the reader's ticket is visible with an id at or below the
\* cursor without having been returned to the reader
C3_NoGapBelowCursor ==
    \A e \in ticket_events :
        (e.TicketID = ReaderTicket /\ e.id <= cursor) => e.id \in Range(seen)

\* the requests that wrote the row of ticket t with UpdateStatus or AssignTicket
Writers(t) == {r \in Reqs : req[r].op \in {"status", "assign"} /\ req[r].t = t /\ req[r].wrote}

\* C4: when one AssignTicket and one UpdateStatus of the same ticket both
\* returned success and nothing else updated the ticket, the persisted row has
\* the assignee of the one and the status of the other
C4_NoLostUpdate ==
    \A ra, rs \in Reqs :
        (/\ req[ra].op = "assign" /\ req[rs].op = "status"
         /\ req[ra].result = "ok" /\ req[rs].result = "ok"
         /\ req[ra].t = req[rs].t
         /\ Writers(req[ra].t) = {ra, rs})
        => /\ tickets[req[ra].t].assignee = req[ra].arg
           /\ tickets[req[ra].t].status = req[rs].arg

\* C5: a persisted ticket row whose status is CLOSED never changes again
C5_ClosedAbsorbing ==
    [][\A t \in DOMAIN tickets : tickets[t].status = "CLOSED" => tickets'[t] = tickets[t]]_vars

\* ==================================================== claims on the services
\* C9: a request whose Broadcast goroutine was spawned or has run is one whose
\* repository write returned success
C9_BroadcastOnlyAfterPersisted ==
    \A r \in bgo \cup bcalls : req[r].wrote /\ req[r].result = "ok"

\* an event reached Hub.Broadcast, and another request's write failed
C9_Witness ==
    /\ \E r \in Reqs : r \in bcalls /\ req[r].wrote /\ Len(broadcast) > 0
    /\ \E r \in Reqs : req[r].pc = "done" /\ req[r].result = "err"

\* C10: every mutation that returned success had its event handed to
\* Hub.Broadcast (the goroutine was at least spawned)
C10_CommittedIsBroadcast ==
    \A r \in Reqs : (req[r].pc = "done" /\ req[r].result = "ok") => r \in bgo \cup bcalls

\* C11: Broadcast never blocks its caller: in every hub state (queue empty,
\* partly full or saturated, loop idle, busy or stuck at an eviction) a
\* Broadcast call can return at once, and it returns nil (success); on a
\* saturated queue the event is dropped and the queue is unchanged, otherwise
\* the event is appended
C11_BroadcastNeverBlocks ==
    /\ [](nextSeq < MaxEvents => \A t \in Tickets : ENABLED CallBroadcastOn(BcastQueueCap, t))
    /\ [][nextSeq' # nextSeq =>
             /\ bret' = "nil"
             /\ IF Len(broadcast) >= BcastQueueCap
                THEN broadcast' = broadcast
                ELSE /\ Len(broadcast') = Len(broadcast) + 1
                     /\ SubSeq(broadcast', 1, Len(broadcast)) = broadcast
                     /\ broadcast'[Len(broadcast')].seq = nextSeq']_vars

\* Broadcast was called on a partly full queue and then on the saturated one,
\* while the loop was stuck at an eviction: the first event was appended behind
\* the queued one, the second was dropped, both calls returned nil
C11_Witness ==
    /\ nextSeq = 2
    /\ hubPc = "evict"
    /\ bret = "nil"
    /\ Len(broadcast) = BcastQueueCap
    /\ broadcast[1].seq = 0
    /\ broadcast[Len(broadcast)].seq = 1

\* a step of the delivery: Hub.Broadcast is called (the event is enqueued or
\* dropped), Run takes an event, looks up its room, sends to a member or stops
\* at the eviction of a full one, a WritePump takes an event off c.Send
DeliveryStep ==
    <<bcalls, broadcast, hubPc, hubEvent, hubPending, Send, enqLog, wp, panicked>>'
        # <<bcalls, broadcast, hubPc, hubEvent, hubPending, Send, enqLog, wp, panicked>>

\* the mutations: the requests that got past authorization
Mutations == {r \in Reqs : req[r].pc = "done" /\ req[r].result # "forbidden"}

\* C12: delivery outcomes never affect the mutation: once a mutation has
\* returned, its result is what its repository call gave and never changes
\* again, and the request is not run again; every step of the delivery (the
\* event enqueued, dropped on a saturated queue, dispatched, a member found
\* full and evicted) leaves every request and the ticket, comment and event
\* rows as they were
C12_DeliveryLeavesMutationAlone ==
    /\ [](\A r \in Mutations : (req[r].result = "ok") = req[r].wrote)
    /\ [][\A r \in Reqs : req[r].pc = "done" => req'[r] = req[r]]_vars
    /\ [][DeliveryStep => /\ req' = req
                          /\ tickets' = tickets
                          /\ comments' = comments
                          /\ ticket_events' = ticket_events
                          /\ ticketSeq' = ticketSeq
                          /\ eventSeq' = eventSeq]_vars

\* three mutations returned success and their rows are stored; the first event
\* was enqueued and delivered, the second was enqueued and its dispatch stopped
\* at the eviction of a member whose queue was full, the third was dropped on
\* the saturated dispatch queue
C12_Witness ==
    /\ bcalls = Reqs
    /\ \A r \in Reqs : req[r].pc = "done" /\ req[r].result = "ok" /\ req[r].wrote
    /\ \A r \in Reqs : req[r].op = "comment" => [TicketID |-> req[r].t, req |-> r] \in comments
    /\ nextSeq = 3
    /\ hubPc = "evict"
    /\ hubEvent.seq = 2
    /\ 1 \in enqLog[Head(hubPending)]
    /\ broadcast = <<>>

\* C13: an event being dispatched for ticket T is eventually enqueued on the
\* outbound queue of every session of the room's copy that has spare capacity
\* (unless the process has died of a panic)
C13_EveryMemberWithRoomGetsEvent ==
    \A d \in Clients, n \in 1..MaxEvents :
        (/\ hubPc = "sending"
         /\ hubEvent.seq = n
         /\ d \in Range(hubPending)
         /\ ~closed[d]
         /\ Len(Send[d]) < SendCap)
        ~> (n \in enqLog[d] \/ panicked)

\* the session is in the user index
Registered(c) == c \in MapGet(clients, UserID(c))

\* C14: once unregisterClient(c) has run, c is in no room and not in the user
\* index, in that state and in every later one
C14_UnregisteredStaysOut ==
    \A c \in Clients :
        unregCalls[c] >= 1 => /\ ~Registered(c)
                              /\ \A t \in DOMAIN rooms : c \notin rooms[t]

\* a session that held a subscription was unregistered, while another session
\* is still registered and subscribed
C14_Witness ==
    \E c, d \in Clients :
        /\ unregCalls[c] >= 1 /\ Subscriptions[c] # {}
        /\ Registered(d) /\ Subscriptions[d] # {}

\* C15: for every registered session c and ticket T, c is in room T exactly
\* when T is in c's own subscription set
C15_RoomsAgreeWithSubscriptions ==
    \A c \in Clients, t \in Tickets :
        Registered(c) => (c \in MapGet(rooms, t) <=> t \in Subscriptions[c])

\* two registered sessions hold different, non-empty subscription sets
C15_Witness ==
    \E c, d \in Clients :
        /\ Registered(c) /\ Registered(d)
        /\ Subscriptions[c] # {} /\ Subscriptions[d] # {}
        /\ Subscriptions[c] # Subscriptions[d]
        /\ Subscriptions[c] # Tickets

\* C16: every room of the room index has at least one member
C16_NoEmptyRoom == \A t \in DOMAIN rooms : rooms[t] # {}

\* the Unregister of a subscribed session emptied a room, which is gone, while
\* another room is still there
C16_Witness ==
    \E c \in Clients :
        /\ unregCalls[c] >= 1
        /\ \E t \in Subscriptions[c] : t \notin DOMAIN rooms
        /\ DOMAIN rooms # {}

\* C17: when either task of a session has terminated, eventually the session
\* is unregistered from the Hub and both tasks have terminated (a run in which
\* the process has died of a panic is not held against the claim)
C17_TaskExitCleansUpBoth ==
    \A c \in Clients :
        (wp[c] = "done" \/ rp[c] \notin {"none", "registering", "running"})
        ~> ((unregCalls[c] >= 1 /\ wp[c] = "done" /\ rp[c] = "done") \/ panicked)

\* C18: after the Hub closed a session's outbound queue its WritePump
\* eventually returns (a panic of another goroutine, which ends the process, is
\* not held against the claim), and from the close on the queue only shrinks
\* from its head
C18_CloseEndsWritePump ==
    /\ \A c \in Clients : closed[c] ~> (wp[c] = "done" \/ (panicked /\ wp[c] # "panicked"))
    /\ [][\A c \in Clients :
             closed[c] => \E k \in 0..Len(Send[c]) :
                             Send'[c] = SubSeq(Send[c], k + 1, Len(Send[c]))]_vars

\* C19: an UpdateStatus call that reads a ticket whose persisted status is
\* CLOSED fails as an invalid transition for every target status, CLOSED
\* included, and changes neither the ticket rows nor the event log
C19_ClosedRejectsUpdateStatus ==
    [][\A r \in Reqs :
          (/\ req[r].pc = "get" /\ req'[r].pc # "get"
           /\ req[r].op = "status"
           /\ req[r].t \in DOMAIN tickets
           /\ tickets[req[r].t].status = "CLOSED")
          => /\ req'[r].pc = "done"
             /\ req'[r].result = "invalid"
             /\ ~req'[r].wrote
             /\ tickets' = tickets
             /\ ticket_events' = ticket_events
             /\ eventSeq' = eventSeq]_vars

\* an UpdateStatus(CLOSED) succeeded, a later UpdateStatus of the same ticket
\* was refused, the ticket is CLOSED and has the one STATUS_UPDATED event
C19_Witness ==
    \E r1, r2 \in Reqs :
        /\ req[r1].op = "status" /\ req[r1].arg = "CLOSED" /\ req[r1].result = "ok"
        /\ req[r2].op = "status" /\ req[r2].t = req[r1].t /\ req[r2].result = "invalid"
        /\ tickets[req[r1].t].status = "CLOSED"
        /\ {e.req : e \in {x \in ticket_events : x.Type = "STATUS_UPDATED"}} = {r1}

\* the transitions the ticket state machine is said to accept
AllowedTransitions ==
    {<<"OPEN", "IN_PROGRESS">>, <<"IN_PROGRESS", "OPEN">>,
     <<"OPEN", "CLOSED">>, <<"IN_PROGRESS", "CLOSED">>}

\* C20: for every pair (current, new) of statuses UpdateStatus(new) succeeds,
\* setting the status to new and stamping UpdatedAt, exactly when the pair is
\* one of the four allowed transitions, and fails otherwise
C20_ExactlyFourTransitions ==
    [][\A r \in Reqs :
          (/\ req[r].pc = "get" /\ req'[r].pc # "get"
           /\ req[r].op = "status"
           /\ req[r].t \in DOMAIN tickets)
          => IF <<tickets[req[r].t].status, req[r].arg>> \in AllowedTransitions
             THEN /\ req'[r].pc = "write"
                  /\ req'[r].local = [tickets[req[r].t] EXCEPT !.status = req[r].arg,
                                                               !.UpdatedAt = "now"]
             ELSE /\ req'[r].pc = "done"
                  /\ req'[r].result = "invalid"]_vars

\* on an IN_PROGRESS ticket one UpdateStatus(OPEN) was accepted and one
\* UpdateStatus(IN_PROGRESS) was refused
C20_Witness ==
    /\ tickets[1].status = "IN_PROGRESS"
    /\ \E r1, r2 \in Reqs :
          /\ req[r1].pc = "write" /\ req[r1].local.status = "OPEN"
          /\ req[r2].result = "invalid" /\ req[r2].arg = "IN_PROGRESS" /\ req[r2].t = 1

\* C21: an AssignTicket call that reads a ticket whose persisted status is
\* CLOSED fails, leaves the ticket rows unchanged and appends no event
C21_ClosedRejectsAssign ==
    [][\A r \in Reqs :
          (/\ req[r].pc = "get" /\ req'[r].pc # "get"
           /\ req[r].op = "assign"
           /\ req[r].t \in DOMAIN tickets
           /\ tickets[req[r].t].status = "CLOSED")
          => /\ req'[r].pc = "done"
             /\ req'[r].result = "invalid"
             /\ ~req'[r].wrote
             /\ tickets' = tickets
             /\ ticket_events' = ticket_events
             /\ eventSeq' = eventSeq]_vars

\* a ticket was closed, an AssignTicket on it was refused afterwards, the
\* ticket is still CLOSED and unassigned and has no TICKET_ASSIGNED event
C21_Witness ==
    \E r1, r2 \in Reqs :
        /\ req[r1].op = "status" /\ req[r1].arg = "CLOSED" /\ req[r1].result = "ok"
        /\ req[r2].op = "assign" /\ req[r2].t = req[r1].t /\ req[r2].result = "invalid"
        /\ tickets[req[r1].t].status = "CLOSED"
        /\ tickets[req[r1].t].assignee = NoAssignee
        /\ \A e \in ticket_events : e.Type # "TICKET_ASSIGNED"

\* C22: when a CreateTicket commits, its ticket is OPEN, the event log holds
\* exactly one TICKET_CREATED event for that ticket, and that event's id is
\* greater than the id of every event of that ticket that was in the log before
C22_CreatedEventIsNewest ==
    [][\A e \in ticket_events' \ ticket_events :
          e.Type = "TICKET_CREATED" =>
              /\ e.snapshot.status = "OPEN"
              /\ Cardinality({x \in ticket_events' : x.Type = "TICKET_CREATED"
                                                     /\ x.TicketID = e.TicketID}) = 1
              /\ \A x \in ticket_events : x.TicketID = e.TicketID => x.id < e.id]_vars

\* C23: for one caller making its calls one after another: every successful
\* CreateTicket / AssignTicket / UpdateStatus appends exactly one event, of type
\* TICKET_CREATED / TICKET_ASSIGNED / STATUS_UPDATED, with an id above every id in
\* the log; when no earlier call lost an id, the TICKET_ASSIGNED id is the previous
\* maximum plus one; an UpdateStatus on a CLOSED ticket fails and leaves the log
\* and the ticket as they were
C23_OneEventPerSuccessfulStep ==
    [][LET r == SeqReq
           new == ticket_events' \ ticket_events
           ids == {x.id : x \in ticket_events}
           top == IF ids = {} THEN 0 ELSE CHOOSE m \in ids : \A y \in ids : y <= m
       IN /\ ticket_events \subseteq ticket_events'
          /\ (req[r].result # "ok" /\ req'[r].result = "ok") <=> new # {}
          /\ new # {} =>
               /\ Cardinality(new) = 1
               /\ \A e \in new :
                    /\ e.TicketID = req[r].t
                    /\ req[r].op = "create" => e.Type = "TICKET_CREATED"
                    /\ req[r].op = "assign" => e.Type = "TICKET_ASSIGNED"
                    /\ req[r].op = "status" => e.Type = "STATUS_UPDATED"
                    /\ e.id > top
                    /\ (req[r].op = "assign" /\ Cardinality(ticket_events) = eventSeq - 1)
                          => e.id = top + 1
          /\ (/\ req[r].pc = "get" /\ req[r].op = "status"
              /\ req[r].t \in DOMAIN tickets
              /\ tickets[req[r].t].status = "CLOSED"
              /\ req'[r] # req[r])
                => /\ req'[r].pc = "done" /\ req'[r].result = "invalid"
                   /\ new = {}
                   /\ tickets' = tickets]_vars

\* create, assign and close have succeeded on ticket 1 and left the events 1, 2, 3
\* (TICKET_CREATED, TICKET_ASSIGNED, STATUS_UPDATED); the reopen has been refused
C23_Witness ==
    /\ req[SeqReq].pc = "done" /\ req[SeqReq].op = "status" /\ req[SeqReq].arg = "OPEN"
    /\ req[SeqReq].t = 1 /\ req[SeqReq].result = "invalid"
    /\ 1 \in DOMAIN tickets /\ tickets[1].status = "CLOSED"
    /\ {<<e.id, e.Type>> : e \in ticket_events} =
          {<<1, "TICKET_CREATED">>, <<2, "TICKET_ASSIGNED">>, <<3, "STATUS_UPDATED">>}

\* C24: ListByTicketID(T, afterID, limit) returns the first `limit` events of
\* ticket T with id > afterID (all of them when there are fewer), strictly
\* ascending, none of another ticket; while the log does not change, the same
\* arguments give the same sequence
C24_PageIsFirstLimitOfTicket ==
    /\ [](\A T \in Tickets, afterID \in 0..eventSeq, limit \in 1..(PageLimit + 1) :
            LET page == ListByTicketID(T, afterID, limit)
                eligible == {e.id : e \in {x \in ticket_events :
                                             x.TicketID = T /\ x.id > afterID}}
            IN /\ Range(page) \subseteq eligible
               /\ Len(page) = IF Cardinality(eligible) < limit
                              THEN Cardinality(eligible) ELSE limit
               /\ \A i, j \in 1..Len(page) : i < j => page[i] < page[j]
               /\ \A x \in eligible \ Range(page) : \A i \in 1..Len(page) : page[i] < x)
    /\ [][ticket_events' = ticket_events =>
            \A T \in Tickets, afterID \in 0..eventSeq, limit \in 1..(PageLimit + 1) :
                ListByTicketID(T, afterID, limit)' = ListByTicketID(T, afterID, limit)]_vars

\* the reader has been served a page of its ticket; the log holds a later event
\* of that ticket, which the page's limit or the time of the read left out, and
\* an event of another ticket above the first id served
C24_Witness ==
    /\ seen # <<>>
    /\ \E e \in ticket_events : e.TicketID = ReaderTicket /\ e.id > cursor
    /\ \E e \in ticket_events : e.TicketID # ReaderTicket /\ e.id > seen[1]

\* the catch-up request of the caller has been answered
CatchUpAnswered == req[SeqReq].pc = "done" /\ req[SeqReq].op = "events"

\* C25: a catch-up read asking for more than maxEventsLimit events is not refused
\* for its limit and is served with at most maxEventsLimit events; a read without
\* a limit is served like one with limit defaultEventsLimit; no served read
\* returns more than maxEventsLimit events
C25_LimitIsClamped ==
    CatchUpAnswered =>
        LET after == req[SeqReq].arg[1]
            limit == req[SeqReq].arg[2]
            response == req[SeqReq].result
        IN /\ (limit.kind = "int" /\ limit.n > maxEventsLimit)
                 => "limit" \notin response.errors
           /\ response.status = "ok" => Len(response.data) <= maxEventsLimit
           /\ (response.status = "ok" /\ limit.kind = "absent")
                 => response.data = ListByTicketID(req[SeqReq].t,
                                                   parseEventQuery(after, limit).afterID,
                                                   defaultEventsLimit)

\* C26: a served catch-up response carries nextCursor exactly when its page is not
\* empty, and then it is the id of the page's last event; a read that feeds the
\* caller's cursor back as `after` is served only events with a greater id
C26_NextCursorIsLastId ==
    /\ []((CatchUpAnswered /\ req[SeqReq].result.status = "ok") =>
            LET response == req[SeqReq].result
            IN /\ response.nextCursor = <<>> <=> response.data = <<>>
               /\ response.data # <<>> =>
                     response.nextCursor = <<response.data[Len(response.data)]>>)
    /\ [][(/\ req[SeqReq].pc = "idle" /\ req'[SeqReq].pc = "done"
           /\ req'[SeqReq].op = "events"
           /\ cursor > 0
           /\ req'[SeqReq].arg[1] = Num(cursor))
             => \A i \in 1..Len(req'[SeqReq].result.data) :
                    req'[SeqReq].result.data[i] > cursor]_vars

\* the caller has fed an earlier nextCursor (the id of an event of the ticket)
\* back as `after` and got a page that is not empty, with its own nextCursor
C26_Witness ==
    /\ CatchUpAnswered /\ req[SeqReq].result.status = "ok"
    /\ req[SeqReq].result.data # <<>>
    /\ req[SeqReq].arg[1].kind = "int"
    /\ \E e \in ticket_events : e.TicketID = req[SeqReq].t /\ e.id = req[SeqReq].arg[1].n
    /\ cursor = req[SeqReq].result.nextCursor[1]
    /\ cursor > req[SeqReq].arg[1].n

\* C27: WithTransaction is one atomic unit run once: while a call is inside it
\* (fn's row write, fn's event insert, the commit) no stored row changes, except
\* in the step of a successful commit, which makes the event visible; a call that
\* has returned, with an error or without, takes no further step
C27_TransactionIsAtomic ==
    [][\A r \in Reqs :
          /\ (req[r].pc \in {"write", "event", "commit"} /\ req'[r] # req[r]) =>
                IF req[r].pc = "commit" /\ req'[r].result = "ok"
                THEN ticket_events' = ticket_events \cup {req[r].row}
                ELSE /\ tickets' = tickets
                     /\ comments' = comments
                     /\ ticket_events' = ticket_events
          /\ req[r].pc = "done" => req'[r] = req[r]]_vars

\* the creation rules, each with the field it is about: title empty or longer
\* than 255, description longer than 10000, priority outside LOW / MEDIUM / HIGH,
\* requester id missing
BreaksRule(p, field) ==
    CASE field = "title" -> p.Title = 0 \/ p.Title > 255
      [] field = "description" -> p.Description > 10000
      [] field = "priority" -> p.Priority \notin {"LOW", "MEDIUM", "HIGH"}
      [] field = "requesterId" -> p.RequesterID = "nil"

\* C28: an authorized CreateTicket whose parameters break some of the creation
\* rules fails with a validation error that names every field whose rule is
\* broken and no other, and stores no ticket; when no rule is broken the call
\* does not fail validation
C28_ValidationNamesViolatedFields ==
    \A r \in Reqs :
        (req[r].op = "create" /\ req[r].result # "forbidden") =>
            LET broken == {f \in {"title", "description", "priority", "requesterId"} :
                             BreaksRule(req[r].arg, f)}
            IN IF broken # {}
               THEN /\ req[r].pc = "done" /\ req[r].result = "validation"
                    /\ req[r].row.errors = broken
                    /\ ~req[r].wrote
               ELSE req[r].result # "validation"

\* a call that broke all four rules has been refused, after an earlier call
\* stored a ticket: the store still holds that one ticket only
C28_Witness ==
    /\ req[SeqReq].op = "create" /\ req[SeqReq].result = "validation"
    /\ Cardinality(req[SeqReq].row.errors) = 4
    /\ ticketSeq = 1 /\ DOMAIN tickets = {1}

\* C29: the event log is append-only: every committed event row stays in the
\* log as it is, and the only change the log undergoes is the arrival of rows
\* whose ids no row of the log has
C29_LogIsAppendOnly ==
    [][/\ ticket_events \subseteq ticket_events'
       /\ \A e \in ticket_events' \ ticket_events :
             \A x \in ticket_events : x.id # e.id]_vars

\* three calls have each committed one event, and id 1 went to a call other
\* than a CreateTicket
C29_Witness ==
    /\ Cardinality(ticket_events) = 3
    /\ \A r \in Reqs : req[r].pc = "done" /\ req[r].result = "ok"
    /\ \E r \in Reqs : req[r].op # "create" /\ \E e \in ticket_events :
          e.req = r /\ e.id = 1

\* the goroutine is between h.mu.Lock() and the deferred Unlock of register,
\* unregister, subscribe or unsubscribe
InWrite(p) ==
    cs[p].pc \in {"reg_user", "reg_add", "unreg_subs", "unreg_subs_in", "unreg_user",
                  "unreg_usergc", "unreg_rooms", "unreg_roomgc", "sub_room", "sub_add",
                  "sub_client", "sub_client_in", "unsub_del", "unsub_gc", "unsub_client",
                  "unsub_client_in"}

\* the registry as it is between mutations: no empty room, no user without a
\* session, every member of a room has the room among its subscriptions
RegistrySettled ==
    /\ \A t \in DOMAIN rooms : rooms[t] # {}
    /\ \A u \in DOMAIN clients : clients[u] # {}
    /\ \A t \in DOMAIN rooms : \A c \in rooms[t] : t \in Subscriptions[c]

\* C30: at most one goroutine is inside the critical section of register,
\* unregister, subscribe or unsubscribe, it is the one holding h.mu, and when
\* the dispatch loop looks up the room of an event nobody is inside such a
\* section and the registry is as some completed mutation left it
C30_MutationsSerialized ==
    /\ Cardinality({p \in Procs : InWrite(p)}) <= 1
    /\ \A p \in Procs : InWrite(p) => mu.w = p /\ mu.r = {}
    /\ cs["hub"].pc = "lookup" =>
          /\ \A p \in Procs : ~InWrite(p)
          /\ RegistrySettled

\* the dispatch loop is at its lookup of a room that has a member, one session
\* has been unregistered, and a subscribe or unsubscribe is waiting for h.mu
C30_Witness ==
    /\ cs["hub"].pc = "lookup"
    /\ hubEvent.TicketID \in DOMAIN rooms
    /\ \E c \in Clients : unregCalls[c] >= 1
    /\ \E c \in Clients : cs[c].pc \in {"sub_lock", "unsub_lock"}

\* the history numbers of the messages on c's outbound queue
QueuedSeqs(c) == {Send[c][i].seq : i \in 1..Len(Send[c])}

C32_SameStatusRejected ==
    /\ [](\A t \in DOMAIN tickets : ~CanTransitionTo(tickets[t], tickets[t].status))
    /\ [][\A r \in Reqs :
             (/\ req[r].pc = "get" /\ req'[r].pc # "get"
              /\ req[r].op = "status"
              /\ req[r].t \in DOMAIN tickets
              /\ req[r].arg = tickets[req[r].t].status)
             => /\ req'[r].pc = "done"
                /\ req'[r].result = "invalid"
                /\ ~req'[r].wrote]_vars

\* UpdateStatus(OPEN) on the OPEN ticket 1 has been rejected
C32_Witness ==
    /\ tickets[1].status = "OPEN"
    /\ \E r \in Reqs : /\ req[r].op = "status" /\ req[r].t = 1 /\ req[r].arg = "OPEN"
                       /\ req[r].pc = "done" /\ req[r].result = "invalid"

\* C33: an UpdateStatus, Assign or Unassign call on the aggregate that returns an error
\* leaves the ticket's status, assignee and updated-at time as they were
C33_FailedCallLeavesTicket ==
    \A r \in Reqs :
        (req[r].pc = "done" /\ req[r].result # "nil")
        => /\ req[r].local.status = tickets[req[r].t].status
           /\ req[r].local.assignee = tickets[req[r].t].assignee
           /\ req[r].local.UpdatedAt = tickets[req[r].t].UpdatedAt

\* a CLOSED ticket has refused both a move to OPEN and an assignee
C33_Witness ==
    /\ tickets[1].status = "CLOSED"
    /\ \E r \in Reqs : /\ req[r].op = "status" /\ req[r].arg = "OPEN"
                       /\ req[r].result = "ErrInvalidStatusTransition"
    /\ \E r \in Reqs : /\ req[r].op = "assign" /\ req[r].arg \in Agents
                       /\ req[r].result = "ErrCannotAssignClosed"

\* C34: a successful Assign on the OPEN or IN_PROGRESS ticket it read changes
\* only the assignee and the updated-at time of that aggregate, its status stays
\* what was read, and the TICKET_ASSIGNED event built from it carries a snapshot
\* with that same status and the new assignee
C34_AssignKeepsStatus ==
    /\ [][\A r \in Reqs :
             (/\ req[r].pc = "get" /\ req'[r].pc = "write"
              /\ req[r].op = "assign")
             => /\ tickets[req[r].t].status \in {"OPEN", "IN_PROGRESS"}
                /\ req'[r].local = [tickets[req[r].t] EXCEPT !.assignee = req[r].arg,
                                                             !.UpdatedAt = "now"]
                /\ req'[r].local.status = tickets[req[r].t].status]_vars
    /\ [][\A r \in Reqs :
             (/\ req[r].pc = "event" /\ req'[r].pc = "commit"
              /\ req[r].op = "assign")
             => /\ req'[r].row.Type = "TICKET_ASSIGNED"
                /\ req'[r].row.snapshot.status = req[r].local.status
                /\ req'[r].row.snapshot.assignee = req[r].arg]_vars
    /\ [](\A e \in ticket_events :
             e.Type = "TICKET_ASSIGNED" => e.snapshot.status \in {"OPEN", "IN_PROGRESS"})

\* an IN_PROGRESS ticket was assigned: the row is still IN_PROGRESS, now with the
\* assignee, and its committed TICKET_ASSIGNED event says IN_PROGRESS
C34_Witness ==
    \E r \in Reqs, e \in ticket_events :
        /\ req[r].op = "assign" /\ req[r].result = "ok"
        /\ e.req = r /\ e.Type = "TICKET_ASSIGNED"
        /\ e.snapshot.status = "IN_PROGRESS"
        /\ tickets[req[r].t].status = "IN_PROGRESS"
        /\ tickets[req[r].t].assignee = req[r].arg

\* the process died at a logging call of a pump (the other panic of the model
\* is a send on a closed channel)
LoggerPanicked == \E c \in Clients : rp[c] = "panicked" \/ wp[c] = "panicked"

\* C35: no task sends on a session's outbound queue after the queue was
\* closed (such a send panics), whatever the interleaving of unregister
\* with broadcastEvent, SendToUser and sendPong
C35_NoSendOnClosedQueue == panicked => LoggerPanicked

\* C36: whenever no goroutine is inside a critical section of h.mu, every
\* session that is a member of some room is in the user index (registered and
\* not yet unregistered) and its outbound queue is open
C36_RoomMembersAreRegistered ==
    mu.w = "none" =>
        \A t \in DOMAIN rooms : \A c \in rooms[t] :
            /\ UserID(c) \in DOMAIN clients
            /\ c \in clients[UserID(c)]
            /\ ~closed[c]

\* goroutine p holds h.mu / the lock of session c, for writing or reading
HoldsHub(p) == mu.w = p \/ p \in mu.r
HoldsSession(p, c) == cmu[c].w = p \/ p \in cmu[c].r

\* goroutine p is at an h.mu.Lock() or h.mu.RLock() / at a call that locks c.mu
WaitsHub(p) == cs[p].pc \in {"reg_lock", "unreg_lock", "sub_lock", "unsub_lock", "lookup_lock"}
WaitsSession(p, c) == cs[p].pc \in {"unreg_subs", "sub_client", "unsub_client"} /\ cs[p].c = c

\* C37: the Hub's lock and a session's subscription lock are taken in one order,
\* Hub first: whoever holds a session's lock holds the Hub's write lock too, and
\* no goroutine holding the Hub's lock waits for a session lock whose holder
\* waits for the Hub's lock
C37_HubLockBeforeSessionLock ==
    /\ \A p \in Procs, c \in Clients : HoldsSession(p, c) => mu.w = p
    /\ ~\E p, q \in Procs, c \in Clients :
          /\ p # q
          /\ HoldsHub(p) /\ WaitsSession(p, c)
          /\ HoldsSession(q, c) /\ WaitsHub(q)

\* a ReadPump is inside AddSubscription holding both locks while the dispatch
\* loop waits for the Hub's lock
C37_Witness ==
    \E c \in Clients :
        /\ cs[c].pc = "sub_client_in"
        /\ mu.w = c /\ cmu[c].w = c
        /\ WaitsHub("hub")

\* the sequence q without its i-th element
RemoveAt(q, i) == SubSeq(q, 1, i - 1) \o SubSeq(q, i + 1, Len(q))

SubscribeIdempotent(c, t) ==
    AfterSubscribe(AfterSubscribe(Registry, c, t), c, t) = AfterSubscribe(Registry, c, t)

\* Unsubscribe from a ticket the session is not subscribed to changes nothing
UnsubscribeOfStranger(c, t) ==
    t \notin Subscriptions[c] => AfterUnsubscribe(Registry, c, t) = Registry

\* C39 as stated: Subscribe is idempotent, Subscribe(c, T) followed by
\* Unsubscribe(c, T) restores the room index and the subscription set to their
\* values before the Subscribe, and Unsubscribe from a ticket the session is
\* not subscribed to changes nothing
C39_UnsubscribeUndoesSubscribe ==
    \A c \in Clients, t \in Tickets :
        /\ SubscribeIdempotent(c, t)
        /\ AfterUnsubscribe(AfterSubscribe(Registry, c, t), c, t) = Registry
        /\ UnsubscribeOfStranger(c, t)

\* C39 amended: the same, with Unsubscribe restoring the values before the
\* Subscribe when the session was not subscribed to the ticket before it
C39_UnsubscribeUndoesNewSubscribe ==
    \A c \in Clients, t \in Tickets :
        /\ SubscribeIdempotent(c, t)
        /\ t \notin Subscriptions[c]
              => AfterUnsubscribe(AfterSubscribe(Registry, c, t), c, t) = Registry
        /\ UnsubscribeOfStranger(c, t)

\* c2 is subscribed to ticket 2 and c1 to nothing, no room exists for ticket 1:
\* a Subscribe(c1, 1) would create the room and an Unsubscribe remove it again
C39_Witness ==
    /\ Subscriptions["c1"] = {} /\ Subscriptions["c2"] = {2}
    /\ DOMAIN rooms = {2}
    /\ rp["c1"] = "running"

\* a mutation of ticket t has started and not yet returned
InFlight(t) == \E r \in Reqs : req[r].pc \notin {"idle", "done"} /\ req[r].t = t

\* the committed events of ticket t that carry a ticket snapshot
SnapshotEvents(t) ==
    {e \in ticket_events : e.TicketID = t /\ e.Type \in {"TICKET_CREATED", "STATUS_UPDATED",
                                                         "TICKET_ASSIGNED"}}

\* C40: for every ticket with no mutation in flight, the snapshot of its
\* highest-id TICKET_CREATED / STATUS_UPDATED / TICKET_ASSIGNED event has the
\* status and the assignee of the persisted ticket row
C40_LogAgreesWithRow ==
    \A t \in DOMAIN tickets :
        (~InFlight(t) /\ SnapshotEvents(t) # {}) =>
            \A e \in SnapshotEvents(t) :
                (\A x \in SnapshotEvents(t) : x.id <= e.id) =>
                    /\ e.snapshot.status = tickets[t].status
                    /\ e.snapshot.assignee = tickets[t].assignee

====
